---- MODULE Spec2Model ----
(***************************************************************************)
(* Model of the memory relationship engine of getcognia/Cognia:            *)
(*   - MeshRelationsService (mesh-relations.service.ts): relation finders, *)
(*     relation filter with the AI judge and its evaluation cache, and the *)
(*     relation store writer with its cleanup;                             *)
(*   - MemoryProcessingController.processRawContent: the ingestion request *)
(*     that triggers mesh processing in the background;                    *)
(*   - the read side (mesh-clustering.service.ts): the graph pruner, the   *)
(*     mesh with its backfill and cluster pass, and the cluster traversal; *)
(*   - the AI request queue (runWithRateLimit and processQueue): priority  *)
(*     ordering, minimum spacing between starts, and per-request timeouts. *)
(*                                                                         *)
(* Scores, relevances and thresholds are integers in thousandths           *)
(* (0.3 is 300, 1.0 is ScoreOne).  Relation time is in hours; the queue's  *)
(* time is relative, in units of 2000 ms.                                  *)
(***************************************************************************)
EXTENDS Integers, Sequences, FiniteSets, TLC

VARIABLES
  rows,      \* the memoryRelation table: a set of row records
  nextId,    \* the next row id the table hands out
  cache,     \* relationshipCache: a function from cache keys to entries
  now,       \* Date.now(), in hours
  task,      \* the createMemoryRelations runs: task id -> run state
  req,       \* the processRawContent request: handler and setImmediate callback
  log,       \* what logger.error recorded: a set of log records
  call,      \* the read-side call (mesh, cluster, pruner): its input and its result
  limiter    \* the AI rate limiter: its queue, its flags, its jobs and timers

vars == <<rows, nextId, cache, now, task, req, log, call, limiter>>

(***************************************************************************)
(* Units and program constants                                             *)
(***************************************************************************)
ScoreOne == 1000

HighConfidence == 700
MediumConfidence == 500
LowConfidence == 400
MinRelevance == 300
FallbackMin == 300
FallbackTake == 3
MaxAiCandidates == 3
MaxFiltered == 8
UpdateMargin == 50
CleanupFloor == 300
MaxRelationsPerMemory == 10
StaleFloor == 400
ThirtyDays == 720
SevenDays == 168
cacheExpiry == 24
SemanticMin == 300
SemanticLimit == 12
TopicalMin == 250
TopicalLimit == 8
TemporalMin == 200
TemporalLimit == 5


Min2(a, b) == IF a < b THEN a ELSE b
Max2(a, b) == IF a > b THEN a ELSE b
Abs(a) == IF a < 0 THEN 0 - a ELSE a

(***************************************************************************)
(* The memory table (read-only to the engine).  Memories 1 and 2 carry the *)
(* same topics in a different order; 3 and 5 share topics with them and    *)
(* were created within a week of them; 4 shares nothing.                   *)
(***************************************************************************)
MemoryIds == {1, 2, 3, 4, 5}

MemoryTable ==
  [i \in MemoryIds |->
     CASE i = 1 -> [id |-> 1, user_id |-> "u1", topics |-> <<1, 2, 3>>,
                    categories |-> <<1>>, host |-> "h1", created_at |-> 1000]
       [] i = 2 -> [id |-> 2, user_id |-> "u1", topics |-> <<3, 2, 1>>,
                    categories |-> <<1>>, host |-> "h2", created_at |-> 1001]
       [] i = 3 -> [id |-> 3, user_id |-> "u1", topics |-> <<2, 1, 4>>,
                    categories |-> <<1>>, host |-> "h1", created_at |-> 990]
       [] i = 4 -> [id |-> 4, user_id |-> "u1", topics |-> <<7, 8, 9>>,
                    categories |-> <<2>>, host |-> "h3", created_at |-> 300]
       [] OTHER -> [id |-> 5, user_id |-> "u1", topics |-> <<1, 5, 6>>,
                    categories |-> <<3>>, host |-> "h4", created_at |-> 1010]]

(***************************************************************************)
(* Sequence helpers                                                        *)
(***************************************************************************)
Range(s) == {s[i] : i \in DOMAIN s}

Take(s, n) == SubSeq(s, 1, Min2(n, Len(s)))

Includes(s, x) == \E i \in DOMAIN s : s[i] = x

\* Array.prototype.filter with the element's own index: the kept elements in order.
RECURSIVE FilterIdx(_, _, _)
FilterIdx(s, keep(_, _), i) ==
  IF i > Len(s) THEN <<>>
  ELSE (IF keep(s[i], i) THEN <<s[i]>> ELSE <<>>) \o FilterIdx(s, keep, i + 1)

\* Array.prototype.sort((a, b) => b.similarity_score - a.similarity_score): stable.
RECURSIVE InsertDesc(_, _)
InsertDesc(sorted, r) ==
  IF sorted = <<>> THEN <<r>>
  ELSE IF Head(sorted).similarity_score >= r.similarity_score
       THEN <<Head(sorted)>> \o InsertDesc(Tail(sorted), r)
       ELSE <<r>> \o sorted

RECURSIVE SortDesc(_)
SortDesc(s) ==
  IF s = <<>> THEN <<>>
  ELSE InsertDesc(SortDesc(SubSeq(s, 1, Len(s) - 1)), s[Len(s)])

\* Array.prototype.sort() on topic arrays: ascending.
RECURSIVE InsertAsc(_, _)
InsertAsc(sorted, x) ==
  IF sorted = <<>> THEN <<x>>
  ELSE IF Head(sorted) <= x THEN <<Head(sorted)>> \o InsertAsc(Tail(sorted), x)
       ELSE <<x>> \o sorted

RECURSIVE SortAsc(_)
SortAsc(s) ==
  IF s = <<>> THEN <<>>
  ELSE InsertAsc(SortAsc(SubSeq(s, 1, Len(s) - 1)), s[Len(s)])

(***************************************************************************)
(* Relation finders.  What the vector store and the database return is an  *)
(* input: raw is the scored candidate list of one finder before its last   *)
(* stage, error says that its store call threw.                            *)
(***************************************************************************)
Scored(id, score) == [memory |-> id, similarity |-> score, similarity_score |-> score]

\* The queries' own exclusion of the source memory (id: { not: memoryId },
\* must_not memory_id).
ExcludeSelf(raw, memoryId) == SelectSeq(raw, LAMBDA r : r.memory # memoryId)

\* .filter(score >= min).sort(desc).slice(0, limit)
FinderFinish(raw, min, limit) ==
  Take(SortDesc(SelectSeq(raw, LAMBDA r : r.similarity_score >= min)), limit)

\* The semantic finder filters and sorts on similarity, which a finder's result
\* carries equal to similarity_score.
findSimilarMemories(memoryId, raw) ==
  FinderFinish(ExcludeSelf(raw, memoryId), SemanticMin, SemanticLimit)

\* try { ... } catch { return [] }
findTopicalRelations(memoryId, f) ==
  IF f.error THEN <<>>
  ELSE FinderFinish(ExcludeSelf(f.raw, memoryId), TopicalMin, TopicalLimit)

findTemporalRelations(memoryId, f) ==
  IF f.error THEN <<>>
  ELSE FinderFinish(ExcludeSelf(f.raw, memoryId), TemporalMin, TemporalLimit)

\* The semantic finder has no catch of its own: findSimilarMemories rethrows and
\* findRelatedMemories lets the vector store's error through to Promise.all.
FindersThrow(in) == in.hasEmbeddings /\ in.semantic.error

Tagged(list, type) ==
  [i \in DOMAIN list |->
     [memory |-> list[i].memory, similarity |-> list[i].similarity,
      similarity_score |-> list[i].similarity_score, relation_type |-> type]]

allRelations(memoryId, in) ==
  Tagged(IF in.hasEmbeddings THEN findSimilarMemories(memoryId, in.semantic.raw) ELSE <<>>,
         "semantic")
  \o Tagged(findTopicalRelations(memoryId, in.topical), "topical")
  \o Tagged(findTemporalRelations(memoryId, in.temporal), "temporal")

(***************************************************************************)
(* deduplicateRelations: the key is relation.id, a field the finders'      *)
(* results do not carry, so every relation has the key undefined.          *)
(***************************************************************************)
RelationKey(r) == IF "id" \in DOMAIN r THEN r.id ELSE 0

RECURSIVE DedupFrom(_, _, _)
DedupFrom(relations, i, seen) ==
  IF i > Len(relations) THEN <<>>
  ELSE LET r == relations[i]
           key == RelationKey(r)
       IN IF key \in DOMAIN seen
          THEN IF r.similarity_score > seen[key].similarity_score
               THEN <<r>> \o DedupFrom(relations, i + 1, [seen EXCEPT ![key] = r])
               ELSE DedupFrom(relations, i + 1, seen)
          ELSE <<r>> \o DedupFrom(relations, i + 1,
                                  [k \in DOMAIN seen \cup {key} |->
                                     IF k = key THEN r ELSE seen[k]])

deduplicateRelations(relations) == DedupFrom(relations, 1, <<>>)

(***************************************************************************)
(* Relation filter                                                         *)
(***************************************************************************)
OverlapCount(a, b) == Cardinality({i \in DOMAIN a : Includes(b, a[i])})

\* heuristicScore >= 0.3, with both sides multiplied by 10 * lenT * lenC
HeuristicPasses(memory, relation) ==
  LET other == MemoryTable[relation.memory]
      lenT == Max2(Len(memory.topics), 1)
      lenC == Max2(Len(memory.categories), 1)
      topicOverlap == OverlapCount(memory.topics, other.topics)
      categoryOverlap == OverlapCount(memory.categories, other.categories)
      domainBoost == IF memory.host = other.host THEN 1 ELSE 0
  IN 6 * topicOverlap * lenC + 3 * categoryOverlap * lenT + domainBoost * lenT * lenC
       >= 3 * lenT * lenC

applySmartHeuristics(memory, relations) ==
  SelectSeq(relations, LAMBDA r : HeuristicPasses(memory, r))

shouldEvaluateWithAI(memory, relation) ==
  LET other == MemoryTable[relation.memory]
      hasTopicOverlap == \E i \in DOMAIN memory.topics : Includes(other.topics, memory.topics[i])
      isRecentPair == Abs(memory.created_at - other.created_at) < SevenDays
  IN hasTopicOverlap /\ isRecentPair /\ Len(memory.topics) >= 3 /\ Len(other.topics) >= 3

highConfidenceRelations(relations) ==
  SelectSeq(relations, LAMBDA r : r.similarity_score >= HighConfidence)

mediumConfidenceRelations(relations) ==
  SelectSeq(relations, LAMBDA r : r.similarity_score >= MediumConfidence
                                  /\ r.similarity_score < HighConfidence)

lowConfidenceRelations(relations) ==
  SelectSeq(relations, LAMBDA r : r.similarity_score >= LowConfidence
                                  /\ r.similarity_score < MediumConfidence)

aiCandidates(memory, relations) ==
  Take(SelectSeq(lowConfidenceRelations(relations), LAMBDA r : shouldEvaluateWithAI(memory, r)),
       MaxAiCandidates)

(***************************************************************************)
(* The AI judge and the evaluation cache.                                  *)
(*                                                                         *)
(* An evaluation is a record; defined = FALSE stands for an array element  *)
(* that is no object (undefined past the end of the judge's array, null).  *)
(* about is history, not program state: the pair the judge was asked about *)
(* when it produced the evaluation (<<0, 0>> for a substituted default).   *)
(***************************************************************************)
Evaluation(rel, score, type, reasoning, about) ==
  [defined |-> TRUE, isRelevant |-> rel, relevanceScore |-> score,
   relationshipType |-> type, reasoning |-> reasoning, about |-> about]

Undefined ==
  [defined |-> FALSE, isRelevant |-> FALSE, relevanceScore |-> 0,
   relationshipType |-> "", reasoning |-> "", about |-> <<0, 0>>]

\* batchData.map(() => ({ isRelevant: false, relevanceScore: 0, ... }))
DefaultEvaluations(n, reasoning) ==
  [i \in 1..n |-> Evaluation(FALSE, 0, "none", reasoning, <<0, 0>>)]

\* memoryA as batchEvaluateWithAI builds it: title, preview, topics, categories.
\* It has no id field.
memoryA(memory) == [topics |-> memory.topics, categories |-> memory.categories]

\* batchData[i].memoryB
memoryB(candidate) ==
  [id |-> candidate.memory, topics |-> MemoryTable[candidate.memory].topics,
   categories |-> MemoryTable[candidate.memory].categories]

\* `${memoryAId}:${candidateId}:${memoryATopics}:${candidateTopics}`; 0 is 'unknown'.
getCacheKey(mA, mB) ==
  << IF "id" \in DOMAIN mA THEN mA.id ELSE 0,
     mB.id,
     SortAsc(mA.topics),
     SortAsc(mB.topics) >>

\* A lookup that still answers at exactly 24h.
CacheHitInclusive(c, key, t) == key \in DOMAIN c /\ t - c[key].timestamp <= cacheExpiry

\* cached && Date.now() - cached.timestamp < this.cacheExpiry
CacheHit(c, key, t) == key \in DOMAIN c /\ t - c[key].timestamp < cacheExpiry

\* The first loop of batchEvaluateRelationships: the indices the cache does not answer.
uncachedIndices(c, t, mA, candidates) ==
  SelectSeq([i \in DOMAIN candidates |-> i],
            LAMBDA i : ~CacheHit(c, getCacheKey(mA, memoryB(candidates[i])), t))

\* A judge call that answers "relevant" for every candidate when it fails.
callAIForBatchFailOpen(response, n) ==
  IF response.kind = "array" THEN response.items
  ELSE [i \in 1..n |-> Evaluation(TRUE, ScoreOne, "none", "Evaluation failed", <<0, 0>>)]

\* callAIForBatch: what comes back for a batch of n candidates.  A judge response is
\* [kind, items]: "throws" (generateContent rejects or times out), "empty" (a falsy
\* response), "nojson" (no [...] in the text), "badjson" (JSON.parse throws), or
\* "array" with the parsed elements in items.
callAIForBatch(response, n) ==
  IF response.kind = "array" THEN response.items
  ELSE DefaultEvaluations(n, "Evaluation failed")

\* aiResults[i]: undefined past the end of the array.
ElementAt(arr, i) == IF i \in DOMAIN arr THEN arr[i] ELSE Undefined

\* The evaluation the judge's i-th element stands for, tagged with the pair it was
\* asked about (the prompt lists the candidates in batch order).
Asked(ev, memoryId, candidate) ==
  IF ev.defined /\ ev.reasoning = "judge"
  THEN [ev EXCEPT !.about = <<memoryId, candidate.memory>>]
  ELSE ev

\* The second loop: this.relationshipCache.set(cacheKey, { evaluation, timestamp }).
RECURSIVE CacheAfter(_, _, _, _, _, _)
CacheAfter(c, t, mA, candidates, uncached, aiResults) ==
  IF uncached = <<>> THEN c
  ELSE LET k == Len(uncached)
           before == CacheAfter(c, t, mA, candidates, SubSeq(uncached, 1, k - 1), aiResults)
           key == getCacheKey(mA, memoryB(candidates[uncached[k]]))
           entry == [evaluation |-> ElementAt(aiResults, k), timestamp |-> t]
       IN [x \in DOMAIN before \cup {key} |-> IF x = key THEN entry ELSE before[x]]

\* results[]: the cached evaluation where the cache answered at lookup time (held in
\* hits), the judge's element otherwise.
ResultsOf(hits, uncached, aiResults) ==
  [i \in DOMAIN hits |->
     IF Includes(uncached, i)
     THEN ElementAt(aiResults, CHOOSE k \in DOMAIN uncached : uncached[k] = i)
     ELSE hits[i]]

\* The tail of batchEvaluateWithAI: filter by the candidate's own index, then map
\* by the index in the filtered array.  A non-object evaluations[index] in the map
\* is a TypeError, caught by the function's catch, which returns [].
\* A filter that keeps every candidate the judge answered for.
EvaluationKeepsAnyAnswer(ev) == ev.defined

\* evaluation.isRelevant && evaluation.relevanceScore >= 0.3
EvaluationKeeps(ev) == ev.defined /\ ev.isRelevant /\ ev.relevanceScore >= MinRelevance

Rescored(candidate, ev) ==
  [candidate EXCEPT
     !.similarity_score = Min2(ScoreOne, (candidate.similarity_score * ev.relevanceScore) \div ScoreOne),
     !.relation_type = IF ev.relationshipType # "none" THEN ev.relationshipType
                       ELSE candidate.relation_type]

batchEvaluateWithAI(candidates, evaluations) ==
  LET kept == FilterIdx(candidates, LAMBDA c, index : EvaluationKeeps(ElementAt(evaluations, index)), 1)
  IN IF \E index \in DOMAIN kept : ~ElementAt(evaluations, index).defined
     THEN <<>>
     ELSE [index \in DOMAIN kept |-> Rescored(kept[index], evaluations[index])]

\* filterRelationsWithAI, given what batchEvaluateWithAI returned.
filterRelationsWithAI(memory, relations, aiEvaluated) ==
  Take(SortDesc(highConfidenceRelations(relations)
                \o applySmartHeuristics(memory, mediumConfidenceRelations(relations))
                \o aiEvaluated),
       MaxFiltered)

\* The fallback of createMemoryRelations when the filter kept nothing.
strongest(uniqueRelations) ==
  LET top == Take(SortDesc(SelectSeq(uniqueRelations,
                                     LAMBDA r : r.similarity_score >= FallbackMin)),
                  FallbackTake)
  IN [i \in DOMAIN top |->
        [top[i] EXCEPT !.relation_type = IF @ = "" THEN "semantic" ELSE @]]

filteredRelations(memory, uniqueRelations, aiEvaluated) ==
  LET filtered == filterRelationsWithAI(memory, uniqueRelations, aiEvaluated)
  IN IF Len(filtered) = 0 THEN strongest(uniqueRelations) ELSE filtered

(***************************************************************************)
(* The relation store (prisma.memoryRelation)                              *)
(***************************************************************************)
RowsOf(table, memoryId) == {r \in table : r.memory_id = memoryId}

RowsOfPair(table, memoryId, relatedId) ==
  {r \in table : r.memory_id = memoryId /\ r.related_memory_id = relatedId}

\* A store without the uniqueness constraint: every create succeeds.
NoUniqueConstraint(table, memoryId, relatedId) == FALSE

\* The uniqueness constraint on (memory_id, related_memory_id): a create for a pair
\* that has a row fails with P2002.
UniqueViolation(table, memoryId, relatedId) == RowsOfPair(table, memoryId, relatedId) # {}

\* relatedMemory.similarity_score || relatedMemory.similarity
ScoreToWrite(rel) == IF rel.similarity_score # 0 THEN rel.similarity_score ELSE rel.similarity

\* relatedMemory.relation_type || 'semantic'
TypeToWrite(rel) == IF rel.relation_type # "" THEN rel.relation_type ELSE "semantic"

typeHierarchy(type) ==
  CASE type = "semantic" -> 3
    [] type = "topical" -> 2
    [] type = "temporal" -> 1
    [] OTHER -> 0

isMoreSpecificRelationType(newType, existingType) ==
  typeHierarchy(newType) > typeHierarchy(existingType)

shouldUpdate(rel, existing) ==
  \/ ScoreToWrite(rel) > existing.similarity_score + UpdateMargin
  \/ /\ ScoreToWrite(rel) > existing.similarity_score
     /\ isMoreSpecificRelationType(TypeToWrite(rel), existing.relation_type)

\* The excess query skipping one row too many.
IsExcessSkipEleven(table, memoryId, E) ==
  LET mine == RowsOf(table, memoryId)
  IN /\ E \subseteq mine
     /\ Cardinality(E) = Max2(0, Cardinality(mine) - (MaxRelationsPerMemory + 1))
     /\ \A e \in E : \A k \in mine \ E : e.similarity_score <= k.similarity_score

\* findMany({ where: { memory_id }, orderBy: { similarity_score: 'desc' }, skip: 10 }):
\* the rows after the first ten in score order; the database orders ties as it likes.
IsExcess(table, memoryId, E) ==
  LET mine == RowsOf(table, memoryId)
  IN /\ E \subseteq mine
     /\ Cardinality(E) = Max2(0, Cardinality(mine) - MaxRelationsPerMemory)
     /\ \A e \in E : \A k \in mine \ E : e.similarity_score <= k.similarity_score

(***************************************************************************)
(* createMemoryRelations, one action per step between two awaits           *)
(***************************************************************************)
NoCall == [pc |-> "idle"]

\* The rate limiter's jobs (the calls of runWithRateLimit), none submitted yet.
MaxJobs == 3

Jobs == 1..MaxJobs

NoJob ==
  [st |-> "none", priority |-> 0, bypass |-> FALSE, timer |-> "none", left |-> 0,
   promise |-> "none", result |-> "", delay |-> 0, starts |-> 0, expiredInQueue |-> FALSE]

NoProc == [pc |-> "none", left |-> 0, cur |-> 0]

\* let isProcessingQueue = false; let nextAvailableAt = 0; const taskQueue = []
NoLimiter ==
  [isProcessingQueue |-> FALSE, nextAvailableIn |-> 0, taskQueue |-> <<>>,
   job |-> [t \in Jobs |-> NoJob], proc |-> [t \in Jobs |-> NoProc]]

NoRequest ==
  [pc |-> "idle", memoryId |-> 0, sent |-> <<>>, cb |-> "none", meshStartedAfter |-> <<>>]

NoFinder == [error |-> FALSE, raw |-> <<>>]
NoInput == [hasEmbeddings |-> FALSE, aiInitialized |-> FALSE,
            semantic |-> NoFinder, topical |-> NoFinder, temporal |-> NoFinder]
NoResponse == [kind |-> "none", items |-> <<>>]

IdleTask ==
  [pc |-> "idle", memoryId |-> 0, in |-> NoInput, unique |-> <<>>, ai |-> <<>>,
   hits |-> <<>>, uncached |-> <<>>, response |-> NoResponse, evaluations |-> <<>>,
   filtered |-> <<>>, batch |-> <<>>, excess |-> {}, cleaned |-> FALSE, w |-> <<>>]

Writes(batch) ==
  [i \in DOMAIN batch |-> [pc |-> "lookup", rel |-> batch[i], existing |-> <<>>, outcome |-> ""]]

\* The run from the filter's result on: the fallback, then cleanup.
AfterFilter(run, evaluations) ==
  LET memory == MemoryTable[run.memoryId]
      aiEvaluated == IF run.ai = <<>> THEN <<>> ELSE batchEvaluateWithAI(run.ai, evaluations)
  IN [run EXCEPT
        !.pc = "cleanup1",
        !.evaluations = evaluations,
        !.filtered = filterRelationsWithAI(memory, run.unique, aiEvaluated),
        !.batch = filteredRelations(memory, run.unique, aiEvaluated)]

\* From the finders' results to the judge call (or past it when no call is made).
BeginRun(t, memoryId, in) ==
  /\ task[t].pc = "idle"
  /\ IF FindersThrow(in)
     THEN /\ task' = [task EXCEPT ![t] = [@ EXCEPT !.pc = "failed", !.memoryId = memoryId,
                                                  !.in = in]]
          /\ log' = log \cup {[src |-> "createMemoryRelations", id |-> memoryId]}
          /\ UNCHANGED <<rows, nextId, cache, now, req, call, limiter>>
     ELSE LET memory == MemoryTable[memoryId]
              unique == deduplicateRelations(allRelations(memoryId, in))
              ai == aiCandidates(memory, unique)
              mA == memoryA(memory)
              uncached == uncachedIndices(cache, now, mA, ai)
              hits == [i \in DOMAIN ai |->
                         LET key == getCacheKey(mA, memoryB(ai[i]))
                         IN IF CacheHit(cache, key, now) THEN cache[key].evaluation
                            ELSE Undefined]
              run == [task[t] EXCEPT !.memoryId = memoryId, !.in = in, !.unique = unique,
                                     !.ai = ai]
          IN /\ task' = [task EXCEPT ![t] =
                  IF ai = <<>> THEN AfterFilter(run, <<>>)
                  ELSE IF ~in.aiInitialized
                       THEN AfterFilter(run, DefaultEvaluations(Len(ai), "AI not available"))
                  ELSE IF uncached = <<>>
                       THEN AfterFilter([run EXCEPT !.hits = hits], hits)
                  ELSE [run EXCEPT !.pc = "judge", !.hits = hits, !.uncached = uncached]]
             /\ UNCHANGED <<rows, nextId, cache, now, req, log, call, limiter>>

\* callAIForBatch returns: the cache is filled, the filter finishes.
JudgeReturn(t, response) ==
  /\ task[t].pc = "judge"
  /\ LET run == task[t]
         mA == memoryA(MemoryTable[run.memoryId])
         raw == callAIForBatch(response, Len(run.uncached))
         aiResults == [k \in DOMAIN raw |->
                         IF k \in DOMAIN run.uncached
                         THEN Asked(raw[k], run.memoryId, run.ai[run.uncached[k]])
                         ELSE raw[k]]
     IN /\ cache' = CacheAfter(cache, now, mA, run.ai, run.uncached, aiResults)
        /\ task' = [task EXCEPT ![t] =
              AfterFilter([run EXCEPT !.response = response],
                          ResultsOf(run.hits, run.uncached, aiResults))]
  /\ UNCHANGED <<rows, nextId, now, req, log, call, limiter>>

\* A cleanup whose first deleteMany removes nothing.
Cleanup1KeepsLow(t) ==
  /\ task[t].pc = "cleanup1"
  /\ task' = [task EXCEPT ![t].pc = "cleanup2"]
  /\ UNCHANGED <<rows, nextId, cache, now, req, log, call, limiter>>

\* cleanupLowQualityRelations, first deleteMany: this memory's rows below 0.3.
Cleanup1(t) ==
  /\ task[t].pc = "cleanup1"
  /\ rows' = rows \ {r \in RowsOf(rows, task[t].memoryId) : r.similarity_score < CleanupFloor}
  /\ task' = [task EXCEPT ![t].pc = "cleanup2"]
  /\ UNCHANGED <<nextId, cache, now, req, log, call, limiter>>

\* findMany skip 10.
Cleanup2(t) ==
  /\ task[t].pc = "cleanup2"
  /\ \E E \in SUBSET RowsOf(rows, task[t].memoryId) :
       /\ IsExcess(rows, task[t].memoryId, E)
       /\ task' = [task EXCEPT ![t].excess = {e.id : e \in E},
                               ![t].pc = IF E = {} THEN "cleanup4" ELSE "cleanup3"]
  /\ UNCHANGED <<rows, nextId, cache, now, req, log, call, limiter>>

\* deleteMany({ where: { id: { in: ... } } })
Cleanup3(t) ==
  /\ task[t].pc = "cleanup3"
  /\ rows' = {r \in rows : r.id \notin task[t].excess}
  /\ task' = [task EXCEPT ![t].pc = "cleanup4"]
  /\ UNCHANGED <<nextId, cache, now, req, log, call, limiter>>

\* Third deleteMany: rows below 0.4 created more than thirty days ago.  Then the
\* write promises start: each issues its findUnique.
Cleanup4(t) ==
  /\ task[t].pc = "cleanup4"
  /\ rows' = rows \ {r \in RowsOf(rows, task[t].memoryId) :
                       r.similarity_score < StaleFloor /\ r.created_at < now - ThirtyDays}
  /\ task' = [task EXCEPT ![t].pc = "writing", ![t].cleaned = TRUE,
                          ![t].w = Writes(task[t].batch)]
  /\ UNCHANGED <<nextId, cache, now, req, log, call, limiter>>

\* A store error inside cleanup: logged and swallowed, the rest of cleanup skipped.
CleanupFails(t) ==
  /\ task[t].pc \in {"cleanup1", "cleanup2", "cleanup3", "cleanup4"}
  /\ task' = [task EXCEPT ![t].pc = "writing", ![t].w = Writes(task[t].batch)]
  /\ log' = log \cup {[src |-> "cleanupLowQualityRelations", id |-> task[t].memoryId]}
  /\ UNCHANGED <<rows, nextId, cache, now, req, call, limiter>>

\* findUnique for the pair, and the decision taken on its answer.
Lookup(t, i) ==
  /\ task[t].pc \in {"writing", "failed"}
  /\ i \in DOMAIN task[t].w
  /\ task[t].w[i].pc = "lookup"
  /\ LET rel == task[t].w[i].rel
         found == RowsOfPair(rows, task[t].memoryId, rel.memory)
     IN IF found = {}
        THEN task' = [task EXCEPT ![t].w[i].pc = "create"]
        ELSE \E e \in found :
               task' = [task EXCEPT
                  ![t].w[i].existing = <<e>>,
                  ![t].w[i].pc = IF shouldUpdate(rel, e) THEN "update" ELSE "done",
                  ![t].w[i].outcome = IF shouldUpdate(rel, e) THEN "" ELSE "kept"]
  /\ UNCHANGED <<rows, nextId, cache, now, req, log, call, limiter>>

\* prisma.memoryRelation.create; P2002 is swallowed.
Create(t, i) ==
  /\ task[t].pc \in {"writing", "failed"}
  /\ i \in DOMAIN task[t].w
  /\ task[t].w[i].pc = "create"
  /\ LET rel == task[t].w[i].rel
     IN IF UniqueViolation(rows, task[t].memoryId, rel.memory)
        THEN /\ task' = [task EXCEPT ![t].w[i].pc = "done", ![t].w[i].outcome = "P2002"]
             /\ UNCHANGED <<rows, nextId>>
        ELSE /\ rows' = rows \cup {[id |-> nextId, memory_id |-> task[t].memoryId,
                                    related_memory_id |-> rel.memory,
                                    similarity_score |-> ScoreToWrite(rel),
                                    relation_type |-> TypeToWrite(rel),
                                    created_at |-> now]}
             /\ nextId' = nextId + 1
             /\ task' = [task EXCEPT ![t].w[i].pc = "done", ![t].w[i].outcome = "created"]
  /\ UNCHANGED <<cache, now, req, log, call, limiter>>

\* prisma.memoryRelation.update({ where: { id } }); a missing row is P2025, which
\* the promise's catch rethrows.
Update(t, i) ==
  /\ task[t].pc \in {"writing", "failed"}
  /\ i \in DOMAIN task[t].w
  /\ task[t].w[i].pc = "update"
  /\ LET rel == task[t].w[i].rel
         id == task[t].w[i].existing[1].id
     IN IF \E r \in rows : r.id = id
        THEN /\ rows' = {IF r.id = id
                         THEN [r EXCEPT !.similarity_score = ScoreToWrite(rel),
                                        !.relation_type = TypeToWrite(rel)]
                         ELSE r : r \in rows}
             /\ task' = [task EXCEPT ![t].w[i].pc = "done", ![t].w[i].outcome = "updated"]
        ELSE /\ task' = [task EXCEPT ![t].w[i].pc = "rejected", ![t].w[i].outcome = "P2025"]
             /\ UNCHANGED rows
  /\ UNCHANGED <<nextId, cache, now, req, log, call, limiter>>

\* await Promise.all(relationPromises), and the function's own catch: it rejects
\* with the first rejection (the other promises run on) and resolves when all have.
Finish(t) ==
  /\ task[t].pc = "writing"
  /\ \/ \E i \in DOMAIN task[t].w : task[t].w[i].pc = "rejected"
     \/ \A i \in DOMAIN task[t].w : task[t].w[i].pc = "done"
  /\ IF \E i \in DOMAIN task[t].w : task[t].w[i].pc = "rejected"
     THEN /\ task' = [task EXCEPT ![t].pc = "failed"]
          /\ log' = log \cup {[src |-> "createMemoryRelations", id |-> task[t].memoryId]}
     ELSE /\ task' = [task EXCEPT ![t].pc = "done"]
          /\ UNCHANGED log
  /\ UNCHANGED <<rows, nextId, cache, now, req, call, limiter>>

(***************************************************************************)
(* Inputs: what the stores and the judge may answer                        *)
(***************************************************************************)
MaxRawLen == 1
MaxJudgeItems == 2

RECURSIVE RawListsOfLen(_, _, _)
RawListsOfLen(ids, scores, n) ==
  IF n = 0 THEN {<<>>}
  ELSE {Append(l, Scored(i, s)) :
          l \in RawListsOfLen(ids, scores, n - 1), i \in ids, s \in scores}

DistinctMemories(l) == \A i, j \in DOMAIN l : i # j => l[i].memory # l[j].memory

RawLists(ids, scores, maxLen) ==
  {l \in UNION {RawListsOfLen(ids, scores, n) : n \in 0..maxLen} : DistinctMemories(l)}

Found(l) == [error |-> FALSE, raw |-> l]
Failed == [error |-> TRUE, raw |-> <<>>]

FinderResults(ids, scores, maxLen) == {Found(l) : l \in RawLists(ids, scores, maxLen)}

Input(hasEmb, aiInit, sem, top, tmp) ==
  [hasEmbeddings |-> hasEmb, aiInitialized |-> aiInit,
   semantic |-> sem, topical |-> top, temporal |-> tmp]

JudgeSays(rel, score, type) == Evaluation(rel, score, type, "judge", <<0, 0>>)

RECURSIVE SeqsOfLen(_, _)
SeqsOfLen(S, n) ==
  IF n = 0 THEN {<<>>} ELSE {Append(l, x) : l \in SeqsOfLen(S, n - 1), x \in S}

JudgeArrays(items, maxLen) ==
  {[kind |-> "array", items |-> l] : l \in UNION {SeqsOfLen(items, n) : n \in 0..maxLen}}

JudgeFailures == {[kind |-> k, items |-> <<>>] : k \in {"throws", "empty", "nojson", "badjson"}}

(***************************************************************************)
(* Spec: two concurrent createMemoryRelations runs for the same memory,    *)
(* starting from an empty store and an empty cache.                        *)
(***************************************************************************)
Tasks == {"t1", "t2"}

RaceInputs ==
  {Input(TRUE, TRUE, sem, top, NoFinder) :
     sem \in FinderResults({3}, {450}, MaxRawLen),
     top \in FinderResults({3}, {600, 800}, MaxRawLen)}

RaceResponses ==
  JudgeArrays({JudgeSays(TRUE, 500, "none")}, MaxJudgeItems - 1)
  \cup {[kind |-> "throws", items |-> <<>>]}

Init ==
  /\ rows = {}
  /\ nextId = 1
  /\ cache = <<>>
  /\ now = 2000
  /\ task = [t \in Tasks |-> IdleTask]
  /\ req = NoRequest
  /\ call = NoCall
  /\ limiter = NoLimiter
  /\ log = {}

BeginRace(t) == \E in \in RaceInputs : BeginRun(t, 1, in)

JudgeRace(t) == \E response \in RaceResponses : JudgeReturn(t, response)

Next ==
  \E t \in Tasks :
    \/ BeginRace(t)
    \/ JudgeRace(t)
    \/ Cleanup1(t)
    \/ Cleanup2(t)
    \/ Cleanup4(t)
    \/ CleanupFails(t)
    \/ \E i \in 1..MaxFiltered : Lookup(t, i) \/ Create(t, i) \/ Update(t, i)
    \/ Finish(t)

Spec == Init /\ [][Next]_vars

\* C1: at most one stored row for each ordered pair (memory_id, related_memory_id).
OneRowPerPair ==
  \A r1, r2 \in rows :
    (r1.memory_id = r2.memory_id /\ r1.related_memory_id = r2.related_memory_id) => r1 = r2

\* C1 witness: both runs tried to insert the same pair; one insert hit the constraint.
RaceOnInsert ==
  \E i \in DOMAIN task["t1"].w, j \in DOMAIN task["t2"].w :
    /\ task["t1"].w[i].rel.memory = task["t2"].w[j].rel.memory
    /\ {task["t1"].w[i].outcome, task["t2"].w[j].outcome} = {"created", "P2002"}

\* C2 as claimed: when both runs write the same ordered pair, no write step of
\* either run is rejected, so both runs complete without error.
WritersNeverFail ==
  (\E i \in DOMAIN task["t1"].batch, j \in DOMAIN task["t2"].batch :
     /\ task["t1"].memoryId = task["t2"].memoryId
     /\ task["t1"].batch[i].memory = task["t2"].batch[j].memory)
  => \A t \in Tasks :
       /\ task[t].pc # "failed"
       /\ \A i \in DOMAIN task[t].w : task[t].w[i].pc # "rejected"

(***************************************************************************)
(* SpecWriter: one run against a store that already holds the row of the   *)
(* pair (1, 3), written by an earlier run; one finder reports memory 3.    *)
(***************************************************************************)
RelationTypes == {"semantic", "topical", "temporal"}

Row(id, memoryId, relatedId, score, type, created) ==
  [id |-> id, memory_id |-> memoryId, related_memory_id |-> relatedId,
   similarity_score |-> score, relation_type |-> type, created_at |-> created]

WriterExistingScores == {500, 540}
WriterNewScores == {500, 520, 550, 560, 600}

WriterInputs ==
  {Input(TRUE, TRUE, Found(l), NoFinder, NoFinder) :
     l \in RawLists({3}, WriterNewScores, MaxRawLen) \ {<<>>}}
  \cup {Input(TRUE, TRUE, NoFinder, Found(l), NoFinder) :
     l \in RawLists({3}, WriterNewScores, MaxRawLen) \ {<<>>}}
  \cup {Input(TRUE, TRUE, NoFinder, NoFinder, Found(l)) :
     l \in RawLists({3}, WriterNewScores, MaxRawLen) \ {<<>>}}

InitWriter ==
  /\ \E s \in WriterExistingScores, ty \in RelationTypes :
       rows = {Row(1, 1, 3, s, ty, 1990)}
  /\ nextId = 2
  /\ cache = <<>>
  /\ now = 2000
  /\ task = [t \in Tasks |-> IdleTask]
  /\ req = NoRequest
  /\ call = NoCall
  /\ limiter = NoLimiter
  /\ log = {}

BeginWriter == \E in \in WriterInputs : BeginRun("t1", 1, in)

NextWriter ==
  \/ BeginWriter
  \/ Cleanup1("t1")
  \/ Cleanup2("t1")
  \/ Cleanup4("t1")
  \/ CleanupFails("t1")
  \/ \E i \in 1..MaxFiltered : Lookup("t1", i) \/ Update("t1", i)
  \/ Finish("t1")

SpecWriter == InitWriter /\ [][NextWriter]_vars

\* The decision of a settled write that found a row: did it replace the row?
Replaced(w) == w.outcome = "updated"

SettledOnExisting(w) == w.pc = "done" /\ w.existing # <<>>

\* C4 as claimed: the row is updated iff s' > s + 0.05, or s' is not lower than s
\* and t' outranks t in semantic(3) > topical(2) > temporal(1).
UpdateIffNotLower ==
  \A i \in DOMAIN task["t1"].w :
    LET w == task["t1"].w[i]
        e == w.existing[1]
    IN SettledOnExisting(w) =>
         (Replaced(w) <=>
            \/ w.rel.similarity_score > e.similarity_score + 50
            \/ /\ w.rel.similarity_score >= e.similarity_score
               /\ \/ w.rel.relation_type = "semantic" /\ e.relation_type # "semantic"
                  \/ w.rel.relation_type = "topical" /\ e.relation_type = "temporal")

\* What the writer does: the row is updated iff s' > s + 0.05, or s' is strictly
\* higher than s and t' outranks t; the updated row then holds (s', t'), otherwise
\* it is unchanged.
UpdateIffHigher ==
  \A i \in DOMAIN task["t1"].w :
    LET w == task["t1"].w[i]
        e == w.existing[1]
        outranks == \/ w.rel.relation_type = "semantic" /\ e.relation_type # "semantic"
                    \/ w.rel.relation_type = "topical" /\ e.relation_type = "temporal"
        should == \/ w.rel.similarity_score > e.similarity_score + 50
                  \/ w.rel.similarity_score > e.similarity_score /\ outranks
    IN SettledOnExisting(w) =>
         /\ Replaced(w) <=> should
         /\ rows = {IF should
                    THEN [e EXCEPT !.similarity_score = w.rel.similarity_score,
                                   !.relation_type = w.rel.relation_type]
                    ELSE e}

\* The example of the update rule: existing (0.50, topical), new (0.52, semantic): updated.
SpecificityUpgrade ==
  \E i \in DOMAIN task["t1"].w :
    LET w == task["t1"].w[i]
    IN /\ SettledOnExisting(w)
       /\ w.existing[1].similarity_score = 500
       /\ w.existing[1].relation_type = "topical"
       /\ w.rel.similarity_score = 520
       /\ w.rel.relation_type = "semantic"
       /\ Replaced(w)
       /\ \E r \in rows : r.similarity_score = 520 /\ r.relation_type = "semantic"

(***************************************************************************)
(* SpecCleanup: one run for memory 1 against a store that earlier runs     *)
(* have filled with up to MaxPreload rows of memory 1 (to memories 101,    *)
(* 102, ...): one below the 0.3 floor, one stale (below 0.4 and older than *)
(* thirty days), the others at 0.35 and from 0.5 up, with ties.            *)
(***************************************************************************)
MaxPreload == 13

PreloadedRow(k) ==
  Row(k, 1, 100 + k,
      CASE k = 1 -> 250 [] k = 2 -> 350 [] k = 3 -> 350 [] OTHER -> 500 + 10 * (k % 3),
      IF k % 2 = 0 THEN "topical" ELSE "semantic",
      IF k = 2 THEN 1000 ELSE 1900)

CleanupInputs ==
  {Input(TRUE, TRUE, sem, NoFinder, tmp) :
     sem \in FinderResults({3}, {450}, MaxRawLen),
     tmp \in FinderResults({4}, {800}, MaxRawLen)}

CleanupResponses == JudgeArrays({JudgeSays(TRUE, 500, "none")}, MaxJudgeItems - 1)

InitCleanup ==
  /\ \E n \in 0..MaxPreload : rows = {PreloadedRow(k) : k \in 1..n}
  /\ nextId = MaxPreload + 1
  /\ cache = <<>>
  /\ now = 2000
  /\ task = [t \in Tasks |-> IdleTask]
  /\ req = NoRequest
  /\ call = NoCall
  /\ limiter = NoLimiter
  /\ log = {}

BeginCleanup == \E in \in CleanupInputs : BeginRun("t1", 1, in)

JudgeCleanup == \E response \in CleanupResponses : JudgeReturn("t1", response)

NextCleanup ==
  \/ BeginCleanup
  \/ JudgeCleanup
  \/ Cleanup1("t1")
  \/ Cleanup2("t1")
  \/ Cleanup3("t1")
  \/ Cleanup4("t1")
  \/ CleanupFails("t1")
  \/ \E i \in 1..MaxFiltered : Lookup("t1", i) \/ Create("t1", i)
  \/ Finish("t1")

SpecCleanup == InitCleanup /\ [][NextCleanup]_vars

WithinCap(memoryId) == Cardinality(RowsOf(rows, memoryId)) <= 10

NoneBelowFloor(memoryId) == \A r \in RowsOf(rows, memoryId) : r.similarity_score >= 300

HasWritten(run) == \E i \in DOMAIN run.w : run.w[i].outcome \in {"created", "updated"}

FilterInputs ==
  {Input(hasEmb, aiInit, sem, top, tmp) :
     hasEmb \in BOOLEAN, aiInit \in BOOLEAN,
     sem \in {Failed} \cup FinderResults({1, 3}, {450, 800}, MaxRawLen),
     top \in {Failed} \cup FinderResults({5}, {460, 600}, MaxRawLen),
     tmp \in {Failed} \cup FinderResults({3, 4}, {350, 600}, MaxRawLen)}

JudgeItems ==
  {JudgeSays(TRUE, 900, "semantic"), JudgeSays(TRUE, 3000, "none"),
   JudgeSays(FALSE, -500, "none"), Undefined}

FilterResponses == JudgeFailures \cup JudgeArrays(JudgeItems, MaxJudgeItems)

BeginFilter == \E in \in FilterInputs : BeginRun("t1", 1, in)

JudgeFilter == \E response \in FilterResponses : JudgeReturn("t1", response)

NextFilter ==
  \/ BeginFilter
  \/ JudgeFilter
  \/ Cleanup1("t1")
  \/ Cleanup2("t1")
  \/ Cleanup4("t1")
  \/ CleanupFails("t1")
  \/ \E i \in 1..MaxFiltered : Lookup("t1", i) \/ Create("t1", i) \/ Update("t1", i)
  \/ Finish("t1")

SpecFilter == Init /\ [][NextFilter]_vars

\* C3 as claimed: every persisted row has similarity_score in [0,1] and
\* memory_id different from related_memory_id.
PersistedInRange ==
  \A r \in rows :
    /\ r.similarity_score >= 0
    /\ r.similarity_score <= 1000
    /\ r.memory_id # r.related_memory_id

AnyFinderFailed(in) ==
  \/ in.hasEmbeddings /\ in.semantic.error
  \/ in.topical.error
  \/ in.temporal.error

\* What the other finders produced: the input with every failed finder's
\* contribution taken as empty.
WithoutFailed(in) ==
  [in EXCEPT !.semantic = IF @.error THEN NoFinder ELSE @,
             !.topical = IF @.error THEN NoFinder ELSE @,
             !.temporal = IF @.error THEN NoFinder ELSE @]

\* C6 as claimed: when a finder fails the run is not aborted; it filters and
\* persists the candidates of the other finders.
FailedFinderIsEmpty ==
  \A t \in Tasks :
    (task[t].pc # "idle" /\ AnyFinderFailed(task[t].in)) =>
      /\ task[t].pc # "failed"
      /\ task[t].unique =
           deduplicateRelations(allRelations(task[t].memoryId, WithoutFailed(task[t].in)))

PastFilter(run) == run.pc \in {"cleanup1", "cleanup2", "cleanup3", "cleanup4", "writing", "done"}

JudgeUnavailable(run) ==
  \/ ~run.in.aiInitialized
  \/ run.response.kind \in {"throws", "empty", "nojson", "badjson"}

\* The filter's result that owes nothing to the judge.
KeptWithoutJudge(run) ==
  {r \in Range(run.unique) :
     \/ r.similarity_score >= 700
     \/ /\ r.similarity_score >= 500
        /\ HeuristicPasses(MemoryTable[run.memoryId], r)}

\* A relation of the filter's result that stems from low-confidence candidate c.
StemsFrom(r, c) ==
  r.memory = c.memory /\ r.similarity = c.similarity
  /\ r.similarity >= 400 /\ r.similarity < 500

\* C7: the filter always returns; with the judge unavailable or its output not an
\* array it returns exactly the high- and medium-confidence results, and a
\* candidate whose evaluation is missing from the judge's array is dropped.
JudgeFailureDropsLow ==
  \A t \in Tasks :
    LET run == task[t]
    IN (PastFilter(run) /\ run.ai # <<>>) =>
         /\ JudgeUnavailable(run) =>
              /\ Range(run.filtered) = KeptWithoutJudge(run)
              /\ Len(run.filtered) = Cardinality(KeptWithoutJudge(run))
         /\ KeptWithoutJudge(run) \subseteq Range(run.filtered)
         /\ \A i \in DOMAIN run.ai :
              ~run.evaluations[i].defined =>
                \A k \in DOMAIN run.filtered : ~StemsFrom(run.filtered[k], run.ai[i])

\* C7 witness: the judge call failed for a low-confidence candidate and the filter
\* still returned a high- or medium-confidence result.
JudgeFailedFilterReturned ==
  LET run == task["t1"]
  IN /\ PastFilter(run)
     /\ run.ai # <<>>
     /\ run.response.kind \in {"throws", "badjson"}
     /\ Len(run.filtered) >= 1

(***************************************************************************)
(* SpecCache: runs for memory 1 one after the other, the clock advancing   *)
(* by the hour and the hourly sweep in between.                            *)
(***************************************************************************)
Horizon == 26

CacheInputs ==
  {Input(TRUE, TRUE, sem, NoFinder, NoFinder) : sem \in FinderResults({3}, {450}, MaxRawLen)}

CacheResponses == JudgeArrays({JudgeSays(TRUE, 900, "semantic")}, MaxJudgeItems - 1)

BeginCache == \E in \in CacheInputs : BeginRun("t1", 1, in)

JudgeCache == \E response \in CacheResponses : JudgeReturn("t1", response)

\* createMemoryRelations has settled; the next call starts afresh.
Return(t) ==
  /\ task[t].pc \in {"done", "failed"}
  /\ task' = [task EXCEPT ![t] = IdleTask]
  /\ UNCHANGED <<rows, nextId, cache, now, req, log, call, limiter>>

\* Date.now() moves on by an hour.
Tick ==
  /\ now < 2000 + Horizon
  /\ now' = now + 1
  /\ UNCHANGED <<rows, nextId, cache, task, req, log, call, limiter>>

\* cleanCache, run by setInterval every hour: delete where now - timestamp > cacheExpiry.
cleanCache ==
  /\ cache' = [key \in {k \in DOMAIN cache : ~(now - cache[k].timestamp > cacheExpiry)}
                 |-> cache[key]]
  /\ UNCHANGED <<rows, nextId, now, task, req, log, call, limiter>>

NextCache ==
  \/ BeginCache
  \/ JudgeCache
  \/ Cleanup1("t1")
  \/ Cleanup2("t1")
  \/ Cleanup4("t1")
  \/ CleanupFails("t1")
  \/ \E i \in 1..MaxFiltered : Lookup("t1", i) \/ Create("t1", i)
  \/ Finish("t1")
  \/ Return("t1")
  \/ Tick
  \/ cleanCache

SpecCache == Init /\ [][NextCache]_vars

\* A step in which run t looks its candidates up in the cache.
LooksUp(t) ==
  /\ task[t].pc = "idle"
  /\ task'[t].pc \notin {"idle", "failed"}
  /\ task'[t].ai # <<>>
  /\ task'[t].in.aiInitialized

\* A step of the sweep: the clock and the runs stand still, the cache may shrink.
Sweeps == now' = now /\ task' = task /\ rows' = rows

BeginPair == \E memoryId \in {1, 2}, in \in CacheInputs : BeginRun("t1", memoryId, in)

NextPair ==
  \/ BeginPair
  \/ JudgeCache
  \/ Cleanup1("t1")
  \/ Cleanup2("t1")
  \/ Cleanup4("t1")
  \/ CleanupFails("t1")
  \/ \E i \in 1..MaxFiltered : Lookup("t1", i) \/ Create("t1", i)
  \/ Finish("t1")
  \/ Return("t1")

SpecPair == Init /\ [][NextPair]_vars

\* C10 as claimed: an evaluation a run takes from the cache was produced by a judge
\* call for the run's own pair (source memory, candidate).
ServedForOwnPair ==
  \A t \in Tasks :
    LET run == task[t]
    IN (PastFilter(run) /\ run.ai # <<>>) =>
         \A i \in DOMAIN run.hits :
           (run.hits[i].defined /\ run.hits[i].reasoning = "judge") =>
             run.hits[i].about = <<run.memoryId, run.ai[i].memory>>

(***************************************************************************)
(* SpecIngest: one processRawContent request.  pc is the handler's         *)
(* position, sent the responses written to res, cb the position of the     *)
(* setImmediate callback; meshStartedAfter is history: what had been sent  *)
(* when processMemoryForMesh was called.                                   *)
(***************************************************************************)
StoredResponse == "200 stored"

IngestInputs ==
  {Input(TRUE, aiInit, sem, NoFinder, NoFinder) :
     aiInit \in BOOLEAN, sem \in {Failed} \cup FinderResults({3}, {450, 800}, MaxRawLen)}

IngestResponses ==
  {[kind |-> "throws", items |-> <<>>]}
    \cup JudgeArrays({JudgeSays(TRUE, 900, "semantic")}, MaxJudgeItems - 1)

\* The handler up to the memory row: created, a duplicate answered at once, or an
\* error answered by the outer catch.
Handle(memoryId, outcome) ==
  /\ req.pc = "idle"
  /\ req' = [req EXCEPT
       !.memoryId = memoryId,
       !.pc = IF outcome = "created" THEN "created" ELSE "returned",
       !.sent = IF outcome = "created" THEN @
                ELSE IF outcome = "duplicate" THEN Append(@, "200 duplicate")
                ELSE Append(@, "500")]
  /\ log' = IF outcome = "error" THEN log \cup {[src |-> "processRawContent", id |-> memoryId]}
            ELSE log
  /\ UNCHANGED <<rows, nextId, cache, now, task, call, limiter>>

\* setImmediate(async () => { ... }): the callback is queued, the handler runs on.
Schedule ==
  /\ req.pc = "created"
  /\ req' = [req EXCEPT !.pc = "scheduled", !.cb = "queued"]
  /\ UNCHANGED <<rows, nextId, cache, now, task, log, call, limiter>>

\* res.status(200).json({ success: true, ... }): the handler's last statement.
Respond ==
  /\ req.pc = "scheduled"
  /\ req' = [req EXCEPT !.pc = "returned", !.sent = Append(@, StoredResponse)]
  /\ UNCHANGED <<rows, nextId, cache, now, task, log, call, limiter>>

\* A callback invoked as soon as it is queued.
MacrotaskRunsAtOnce(r) == r.cb = "queued"

\* The event loop takes a setImmediate callback only once the running handler code
\* has run to its end.
MacrotaskRuns(r) == r.cb = "queued" /\ r.pc = "returned"

\* The callback's first try block: the snapshot, its failure logged.
Snapshot(ok) ==
  /\ MacrotaskRuns(req)
  /\ req' = [req EXCEPT !.cb = "mesh"]
  /\ log' = IF ok THEN log ELSE log \cup {[src |-> "snapshot", id |-> req.memoryId]}
  /\ UNCHANGED <<rows, nextId, cache, now, task, call, limiter>>

\* memoryMeshService.processMemoryForMesh is called: generateEmbeddingsForMemory.
MeshStart ==
  /\ req.cb = "mesh"
  /\ req' = [req EXCEPT !.cb = "embedding", !.meshStartedAfter = <<req.sent>>]
  /\ UNCHANGED <<rows, nextId, cache, now, task, log, call, limiter>>

MeshErrorLogged(l, memoryId) ==
  l \cup {[src |-> "processMemoryForMesh", id |-> memoryId],
          [src |-> "processRawContent.mesh", id |-> memoryId]}

\* generateEmbeddingsForMemory throws: logged by processMemoryForMesh and by the
\* callback's catch.
EmbeddingFails ==
  /\ req.cb = "embedding"
  /\ req' = [req EXCEPT !.cb = "meshFailed"]
  /\ log' = MeshErrorLogged(log, req.memoryId)
  /\ UNCHANGED <<rows, nextId, cache, now, task, call, limiter>>

\* generateEmbeddingsForMemory returns: createMemoryRelations is called.
Embedded ==
  /\ req.cb = "embedding"
  /\ req' = [req EXCEPT !.cb = "relations"]
  /\ UNCHANGED <<rows, nextId, cache, now, task, log, call, limiter>>

BeginIngest ==
  /\ req.cb = "relations"
  /\ \E in \in IngestInputs : BeginRun("t1", req.memoryId, in)

JudgeIngest == \E response \in IngestResponses : JudgeReturn("t1", response)

\* createMemoryRelations settles: mesh_done, or the error logged twice and dropped.
MeshSettles ==
  /\ req.cb = "relations"
  /\ task["t1"].pc \in {"done", "failed"}
  /\ req' = [req EXCEPT !.cb = IF task["t1"].pc = "failed" THEN "meshFailed" ELSE "meshDone"]
  /\ log' = IF task["t1"].pc = "failed" THEN MeshErrorLogged(log, req.memoryId) ELSE log
  /\ UNCHANGED <<rows, nextId, cache, now, task, call, limiter>>

\* The callback's last try block: the profile update, its failure logged.
Profile(ok) ==
  /\ req.cb \in {"meshDone", "meshFailed"}
  /\ req' = [req EXCEPT !.cb = IF @ = "meshDone" THEN "finished" ELSE "finishedMeshFailed"]
  /\ log' = IF ok THEN log ELSE log \cup {[src |-> "profile", id |-> req.memoryId]}
  /\ UNCHANGED <<rows, nextId, cache, now, task, call, limiter>>

NextIngest ==
  \/ \E outcome \in {"created", "duplicate", "error"} : Handle(1, outcome)
  \/ Schedule
  \/ Respond
  \/ \E ok \in BOOLEAN : Snapshot(ok)
  \/ MeshStart
  \/ EmbeddingFails
  \/ Embedded
  \/ BeginIngest
  \/ JudgeIngest
  \/ Cleanup1("t1")
  \/ Cleanup2("t1")
  \/ Cleanup4("t1")
  \/ CleanupFails("t1")
  \/ \E i \in 1..MaxFiltered : Lookup("t1", i) \/ Create("t1", i)
  \/ Finish("t1")
  \/ MeshSettles
  \/ \E ok \in BOOLEAN : Profile(ok)

SpecIngest == Init /\ [][NextIngest]_vars

MeshFailed == req.cb \in {"meshFailed", "finishedMeshFailed"}

\* C8: the success response has been sent when mesh processing starts, a failure
\* of mesh processing is logged, and the request's response stays that one
\* success response.
ResponseBeforeMesh ==
  /\ req.meshStartedAfter # <<>> => req.meshStartedAfter = << <<StoredResponse>> >>
  /\ req.cb \notin {"none", "queued", "mesh"} => req.sent = <<StoredResponse>>
  /\ Len(req.sent) <= 1
  /\ MeshFailed => [src |-> "processRawContent.mesh", id |-> req.memoryId] \in log

\* C8 witness: relation discovery failed after the response went out.
MeshFailedAfterResponse ==
  /\ MeshFailed
  /\ task["t1"].pc = "failed"
  /\ req.sent = <<StoredResponse>>

(***************************************************************************)
(* The graph pruner: MeshCalculationService.pruneEdgesMutualKNN.           *)
(* An edge is [source, target, similarity_score, relationship_type]; node  *)
(* ids are integers.                                                       *)
(***************************************************************************)
weightForType(type) ==
  CASE type = "semantic" -> 50
    [] type = "topical" -> 20
    [] OTHER -> 0

\* keyFor(a, b): the unordered pair.
keyFor(a, b) == IF a < b THEN <<a, b>> ELSE <<b, a>>

\* (e.similarity_score || 0) + (weightForType[e.relationship_type || ''] || 0)
weighted(e) == e.similarity_score + weightForType(e.relationship_type)

\* The first loop's two guards.
EntersAdjacency(e, similarityThreshold) ==
  e.source # e.target /\ weighted(e) >= similarityThreshold

\* bySource.get(node): one entry per admitted edge at the node, in edge order, the
\* other endpoint as target.
bySource(edges, similarityThreshold, node) ==
  LET at == SelectSeq(edges, LAMBDA e :
              EntersAdjacency(e, similarityThreshold) /\ (e.source = node \/ e.target = node))
  IN [i \in DOMAIN at |->
        [target |-> IF at[i].source = node THEN at[i].target ELSE at[i].source,
         weighted |-> weighted(at[i])]]

\* list.sort((a, b) => b.weighted - a.weighted): stable.
RECURSIVE InsertByWeight(_, _)
InsertByWeight(sorted, x) ==
  IF sorted = <<>> THEN <<x>>
  ELSE IF Head(sorted).weighted >= x.weighted
       THEN <<Head(sorted)>> \o InsertByWeight(Tail(sorted), x)
       ELSE <<x>> \o sorted

RECURSIVE SortByWeight(_)
SortByWeight(s) ==
  IF s = <<>> THEN <<>>
  ELSE InsertByWeight(SortByWeight(SubSeq(s, 1, Len(s) - 1)), s[Len(s)])

\* A pruner whose adjacency lists are not cut to k entries.
topKPerNodeUncut(edges, k, similarityThreshold, node) ==
  LET top == SortByWeight(bySource(edges, similarityThreshold, node))
  IN {top[i].target : i \in DOMAIN top}

\* topKPerNode.get(node): the targets of the first k entries of the sorted list.
topKPerNode(edges, k, similarityThreshold, node) ==
  LET top == Take(SortByWeight(bySource(edges, similarityThreshold, node)), k)
  IN {top[i].target : i \in DOMAIN top}

\* The second loop's guards, over every input edge.
IsMutual(edges, k, similarityThreshold, e) ==
  /\ e.source # e.target
  /\ e.target \in topKPerNode(edges, k, similarityThreshold, e.source)
  /\ e.source \in topKPerNode(edges, k, similarityThreshold, e.target)

\* kept, as Array.from(kept.values()): one edge per unordered pair in the order the
\* pairs were first set, a later edge replacing the pair's edge when its score is higher.
RECURSIVE keptFrom(_, _, _, _, _)
keptFrom(edges, k, similarityThreshold, i, acc) ==
  IF i > Len(edges) THEN acc
  ELSE LET e == edges[i]
           at == {j \in DOMAIN acc :
                    keyFor(acc[j].source, acc[j].target) = keyFor(e.source, e.target)}
       IN IF ~IsMutual(edges, k, similarityThreshold, e)
          THEN keptFrom(edges, k, similarityThreshold, i + 1, acc)
          ELSE IF at = {}
               THEN keptFrom(edges, k, similarityThreshold, i + 1, Append(acc, e))
          ELSE LET j == CHOOSE j \in at : TRUE
               IN keptFrom(edges, k, similarityThreshold, i + 1,
                           IF e.similarity_score > acc[j].similarity_score
                           THEN [acc EXCEPT ![j] = e] ELSE acc)

kept(edges, k, similarityThreshold) == keptFrom(edges, k, similarityThreshold, 1, <<>>)

\* A degree cap without the clamp.
degreeCapUnclamped(k) == k + 1

\* Math.max(2, Math.min(5, k + 1))
degreeCap(k) == Max2(2, Min2(5, k + 1))

\* The number of edges of the list that have n as source or target.
Degree(edgeList, n) ==
  Cardinality({i \in DOMAIN edgeList : edgeList[i].source = n \/ edgeList[i].target = n})

\* The last loop: an edge is accepted when neither endpoint has reached the cap.
RECURSIVE finalEdges(_, _, _)
finalEdges(sorted, cap, acc) ==
  IF sorted = <<>> THEN acc
  ELSE LET e == Head(sorted)
       IN IF Degree(acc, e.source) >= cap \/ Degree(acc, e.target) >= cap
          THEN finalEdges(Tail(sorted), cap, acc)
          ELSE finalEdges(Tail(sorted), cap, Append(acc, e))

pruneEdgesMutualKNN(edges, k, similarityThreshold) ==
  finalEdges(SortDesc(kept(edges, k, similarityThreshold)), degreeCap(k), <<>>)

(***************************************************************************)
(* Inputs of the pruner: every edge list of up to MaxEdges edges over      *)
(* three nodes (a self-loop, both directions of a pair, scores on either   *)
(* side of the threshold once the type bonus is added), and stars of       *)
(* StarSize edges around node 1, each edge present or not, strong or weak. *)
(***************************************************************************)
MaxEdges == 3
StarSize == 6

Edge(source, target, score, type) ==
  [source |-> source, target |-> target, similarity_score |-> score,
   relationship_type |-> type]

PrunerEdges ==
  {Edge(3, 3, 600, "semantic")}
    \cup {Edge(p[1], p[2], st[1], st[2]) :
            p \in {<<1, 2>>, <<2, 1>>, <<1, 3>>, <<2, 3>>},
            st \in {<<600, "semantic">>, <<350, "semantic">>, <<350, "temporal">>}}

RECURSIVE EdgeLists(_)
EdgeLists(n) ==
  IF n = 0 THEN {<<>>}
  ELSE EdgeLists(n - 1)
         \cup {Append(l, e) : l \in {x \in EdgeLists(n - 1) : Len(x) = n - 1}, e \in PrunerEdges}

\* The stars: for the leaves 2 .. n+1 in turn, no edge, or an edge to node 1 at 0.6 or 0.5.
RECURSIVE Stars(_)
Stars(n) ==
  IF n = 0 THEN {<<>>}
  ELSE {l \o tail : l \in Stars(n - 1),
                    tail \in {<<>>, <<Edge(1, n + 1, 600, "semantic")>>,
                              <<Edge(n + 1, 1, 500, "topical")>>}}

PrunerInputs ==
  {[edges |-> l, k |-> k, similarityThreshold |-> 380] : l \in EdgeLists(MaxEdges), k \in {1, 2}}
    \cup {[edges |-> l, k |-> k, similarityThreshold |-> 400] :
            l \in Stars(StarSize), k \in {StarSize - 1, StarSize}}

\* meshCalculationService.pruneEdgesMutualKNN(edges, k, similarityThreshold)
Prune ==
  /\ call.pc = "idle"
  /\ \E in \in PrunerInputs :
       call' = [pc |-> "pruned", edges |-> in.edges, k |-> in.k,
                similarityThreshold |-> in.similarityThreshold,
                out |-> pruneEdgesMutualKNN(in.edges, in.k, in.similarityThreshold)]
  /\ UNCHANGED <<rows, nextId, cache, now, task, req, log, limiter>>

\* The caller has its result; the next call starts afresh.
ReturnCall ==
  /\ call.pc # "idle"
  /\ call' = NoCall
  /\ UNCHANGED <<rows, nextId, cache, now, task, req, log, limiter>>

\* The nodes that share an admitted edge with v, and the best weight of such an edge.
Neighbours(edges, similarityThreshold, v) ==
  {u \in {edges[i].source : i \in DOMAIN edges} \cup {edges[i].target : i \in DOMAIN edges} :
     \E i \in DOMAIN edges :
       /\ EntersAdjacency(edges[i], similarityThreshold)
       /\ {edges[i].source, edges[i].target} = {u, v}}

NeighbourWeight(edges, similarityThreshold, v, u) ==
  LET ws == {weighted(edges[i]) : i \in {j \in DOMAIN edges :
                /\ EntersAdjacency(edges[j], similarityThreshold)
                /\ {edges[j].source, edges[j].target} = {u, v}}}
  IN CHOOSE w \in ws : \A x \in ws : x <= w

\* u is among the k highest-weight neighbours of v: fewer than k neighbours of v
\* weigh more than u.
AmongTopK(edges, k, similarityThreshold, v, u) ==
  /\ u \in Neighbours(edges, similarityThreshold, v)
  /\ Cardinality({n \in Neighbours(edges, similarityThreshold, v) :
                    NeighbourWeight(edges, similarityThreshold, v, n)
                      > NeighbourWeight(edges, similarityThreshold, v, u)}) < k

MutualTopK(edges, k, similarityThreshold, e) ==
  /\ AmongTopK(edges, k, similarityThreshold, e.source, e.target)
  /\ AmongTopK(edges, k, similarityThreshold, e.target, e.source)

(***************************************************************************)
(* getMemoryMesh.  Latent coordinates and distances are in layout units;   *)
(* the (x, y, z) of an output node is in tenths of a layout unit, which    *)
(* the grid fallback's jitter needs.  A 32-bit hash value is the pair of   *)
(* its 16-bit halves <<hi, lo>>.                                           *)
(***************************************************************************)
Half == 65536

\* The xor of two bytes.
RECURSIVE Xor8(_, _, _)
Xor8(a, b, bits) ==
  IF bits = 0 THEN 0
  ELSE (IF (a % 2) # (b % 2) THEN 1 ELSE 0) + 2 * Xor8(a \div 2, b \div 2, bits - 1)

\* h ^= c; h += (h << 1) + (h << 4) + (h << 7) + (h << 8) + (h << 24), in 32 bits:
\* the xor touches the low byte, the sum is h * (2^24 + 403).
HashStep(h, c) ==
  LET lo == h[2] - (h[2] % 256) + Xor8(h[2] % 256, c, 8)
      low == lo * 403
  IN << ((low \div Half) + h[1] * 403 + (lo % 256) * 256) % Half, low % Half >>

RECURSIVE HashChars(_, _)
HashChars(h, chars) ==
  IF chars = <<>> THEN h ELSE HashChars(HashStep(h, Head(chars)), Tail(chars))

\* The char codes of a memory id (its decimal digits).
IdChars(id) == IF id < 10 THEN <<48 + id>> ELSE <<48 + (id \div 10), 48 + (id % 10)>>

\* jitter(seed, salt) in thousandths: ((h >>> 0) % 1000) / 1000 - 0.5, h starting at
\* 2166136261 and running over seed + '|' + salt.
jitter(seed, salt) ==
  LET h == HashChars(<<33052, 40389>>, IdChars(seed) \o <<124, salt>>)
  IN (((h[1] % 1000) * 536 + h[2]) % 1000) - 500

\* Math.floor(Math.sqrt(n)), by bisection: lo * lo <= n < hi * hi.
RECURSIVE SqrtBetween(_, _, _)
SqrtBetween(n, lo, hi) ==
  IF hi - lo <= 1 THEN lo
  ELSE LET mid == (lo + hi) \div 2
       IN IF mid * mid <= n THEN SqrtBetween(n, mid, hi) ELSE SqrtBetween(n, lo, mid)

FloorSqrt(n) == SqrtBetween(n, 0, 46341)

\* Math.ceil(Math.sqrt(n))
CeilSqrt(n) == IF FloorSqrt(n) * FloorSqrt(n) = n THEN FloorSqrt(n) ELSE FloorSqrt(n) + 1

\* The grid fallback position of memories[index] (index from 0), in tenths.
GridFallback(memories, index) ==
  LET id == memories[index + 1]
      gridSize == CeilSqrt(Len(memories))
      row == index \div gridSize
      col == index % gridSize
  IN [x |-> (col * 200 - gridSize * 100) * 10 + jitter(id, 120),
      y |-> (row * 200 - gridSize * 100) * 10 + jitter(id, 121),
      z |-> 3 * jitter(id, 122)]

\* computeLatentSpaceProjection.  store is what the vector store answers to the
\* scroll: fails, or the memory ids of the content points it holds for the requested
\* memories in the order it returns them; projection is what UMAP makes of them:
\* throws, or one normalized coordinate per point.  The result is a function from
\* the laid-out memory ids to coordinates.
NoCoords == [id \in {} |-> 0]

embeddingData(memories, store) ==
  SortAsc(Take(store.points, 3 * Len(memories)))

computeLatentSpaceProjection(memories, store, projection) ==
  IF store.fails \/ Len(memories) < 3 THEN NoCoords
  ELSE LET data == embeddingData(memories, store)
       IN IF Len(data) < 3 \/ projection.throws THEN NoCoords
          ELSE [id \in Range(data) |->
                  projection.coords[CHOOSE i \in DOMAIN data :
                                      data[i] = id /\ \A j \in DOMAIN data : data[j] = id => j <= i]]

\* What the mesh reads of a memory besides its id: source (memory.source ||
\* 'extension'), the url's domain and the timestamp (<<>> is null).
MeshSource(id) == IF id <= 2 THEN "extension" ELSE "github"
MeshDomain(id) == IF id = 2 \/ id = 3 THEN <<"example.com">> ELSE <<>>
MeshTimestamp(id) == IF id = 1 THEN <<1000>> ELSE IF id = 2 THEN <<2000>> ELSE <<>>

\* k and minDegree of getMemoryMesh.
meshK(nodeCount) == Min2(15, Max2(5, FloorSqrt(Max2(1, nodeCount))))
minDegree(k) == Min2(5, Max2(2, k \div 2))

nodesWithCoords(memories, latentCoords) ==
  SelectSeq(memories, LAMBDA id : id \in DOMAIN latentCoords)

\* Math.floor((v + 1000) / gridCellSize) with gridCellSize = 2000 / gridSize.
GridIndex(v, gridSize) == ((v + 1000) * gridSize) \div 2000

GridKey(coord, gridSize) == <<GridIndex(coord.x, gridSize), GridIndex(coord.y, gridSize)>>

\* spatialGrid.get(key): the laid-out nodes of the cell, in node order.
spatialGrid(withCoords, latentCoords, gridSize, key) ==
  SelectSeq(withCoords, LAMBDA id : GridKey(latentCoords[id], gridSize) = key)

\* Math.sqrt(dx * dx + dy * dy + dz * dz), in whole layout units.
Distance3(a, b) ==
  FloorSqrt((a.x - b.x) * (a.x - b.x) + (a.y - b.y) * (a.y - b.y) + (a.z - b.z) * (a.z - b.z))

Distance2(a, b) == FloorSqrt((a.x - b.x) * (a.x - b.x) + (a.y - b.y) * (a.y - b.y))

\* The cells the first pass looks into, in the order of its two loops.
RECURSIVE CellsAround(_, _, _, _)
CellsAround(key, radius, dx, dy) ==
  IF dx > radius THEN <<>>
  ELSE IF dy > radius THEN CellsAround(key, radius, dx + 1, 0 - radius)
  ELSE <<<<key[1] + dx, key[2] + dy>>>> \o CellsAround(key, radius, dx, dy + 1)

\* distances of a node before the sort: the other nodes of the cells around it.
RECURSIVE DistancesIn(_, _, _, _, _)
DistancesIn(cells, id, withCoords, latentCoords, gridSize) ==
  IF cells = <<>> THEN <<>>
  ELSE LET others == SelectSeq(spatialGrid(withCoords, latentCoords, gridSize, Head(cells)),
                               LAMBDA o : o # id)
       IN [i \in DOMAIN others |->
             [targetId |-> others[i],
              distance |-> Distance3(latentCoords[id], latentCoords[others[i]])]]
          \o DistancesIn(Tail(cells), id, withCoords, latentCoords, gridSize)

\* distances.sort((a, b) => a.distance - b.distance): stable.
RECURSIVE InsertByDistance(_, _)
InsertByDistance(sorted, x) ==
  IF sorted = <<>> THEN <<x>>
  ELSE IF Head(sorted).distance <= x.distance
       THEN <<Head(sorted)>> \o InsertByDistance(Tail(sorted), x)
       ELSE <<x>> \o sorted

RECURSIVE SortByDistance(_)
SortByDistance(s) ==
  IF s = <<>> THEN <<>>
  ELSE InsertByDistance(SortByDistance(SubSeq(s, 1, Len(s) - 1)), s[Len(s)])

\* nodeDistancesMap.get(id)
nodeDistances(id, withCoords, latentCoords, gridSize) ==
  SortByDistance(DistancesIn(CellsAround(GridKey(latentCoords[id], gridSize), 2, -2, -2),
                             id, withCoords, latentCoords, gridSize))

\* allDistances before its sort.
RECURSIVE allDistances(_, _)
allDistances(distancesOf, withCoords) ==
  IF withCoords = <<>> THEN <<>>
  ELSE LET d == distancesOf[Head(withCoords)]
       IN [i \in DOMAIN d |-> d[i].distance] \o allDistances(distancesOf, Tail(withCoords))

\* sorted[index] of the numbers sorted ascending (index from 0).
ElementOfSorted(numbers, index) ==
  CHOOSE v \in Range(numbers) :
    /\ Cardinality({i \in DOMAIN numbers : numbers[i] < v}) <= index
    /\ Cardinality({i \in DOMAIN numbers : numbers[i] <= v}) > index

\* allDistances[percentile95] || (allDistances.length > 0 ? Math.max(...allDistances) : 1)
maxDistance(numbers) ==
  IF numbers = <<>> THEN 1
  ELSE LET at == ElementOfSorted(numbers, (Len(numbers) * 95) \div 100)
       IN IF at # 0 THEN at
          ELSE CHOOSE v \in Range(numbers) : \A w \in Range(numbers) : w <= v

\* Math.pow(1 - Math.min(1, distance / maxDistance), 1.5), in thousandths.
baseSim(distance, maxD) ==
  LET r == IF distance >= maxD THEN 0 ELSE ((maxD - distance) * 1000) \div maxD
  IN FloorSqrt((r * r * r) \div 1000)

OneHour == 3600
OneDay == 86400
OneWeek == 604800

\* boost of a pair: same source, same domain, close timestamps (thousandths;
\* the 0.015 of the one-day step is rounded to 15).
boost(a, b) ==
  (IF MeshSource(a) = MeshSource(b) THEN 20 ELSE 0)
  + (IF MeshDomain(a) # <<>> /\ MeshDomain(a) = MeshDomain(b) THEN 30 ELSE 0)
  + (IF MeshTimestamp(a) # <<>> /\ MeshTimestamp(b) # <<>>
     THEN LET dt == Abs(MeshTimestamp(a)[1] - MeshTimestamp(b)[1])
          IN IF dt <= OneHour THEN 20
             ELSE IF dt <= OneDay THEN 15
             ELSE IF dt <= OneWeek THEN 10 ELSE 0
     ELSE 0)

similarityScore(a, b, distance, maxD) ==
  Max2(0, Min2(ScoreOne, baseSim(distance, maxD) + boost(a, b)))

\* chosen of a node: its k nearest, or the minDegree nearest.
chosen(distances, k) ==
  IF Len(Take(distances, k)) >= minDegree(k) THEN Take(distances, k)
  ELSE Take(distances, minDegree(k))

\* rawEdges: the second pass over the nodes.
RECURSIVE rawEdges(_, _, _, _, _)
rawEdges(withCoords, distancesOf, maxD, k, similarityThreshold) ==
  IF withCoords = <<>> THEN <<>>
  ELSE LET id == Head(withCoords)
           c == chosen(distancesOf[id], k)
           all == [i \in DOMAIN c |->
                     Edge(id, c[i].targetId,
                          similarityScore(id, c[i].targetId, c[i].distance, maxD),
                          "semantic")]
       IN SelectSeq(all, LAMBDA e : e.similarity_score >= similarityThreshold)
          \o rawEdges(Tail(withCoords), distancesOf, maxD, k, similarityThreshold)

\* Array.from(edgeMap.values()): one edge per unordered pair, in the order of
\* first insertion, the higher score winning.
RECURSIVE edgeMap(_, _)
edgeMap(raw, acc) ==
  IF raw = <<>> THEN acc
  ELSE LET e == Head(raw)
           at == {j \in DOMAIN acc : {acc[j].source, acc[j].target} = {e.source, e.target}}
       IN IF at = {} THEN edgeMap(Tail(raw), Append(acc, e))
          ELSE LET j == CHOOSE j \in at : TRUE
               IN edgeMap(Tail(raw),
                          IF e.similarity_score > acc[j].similarity_score
                          THEN [acc EXCEPT ![j] = e] ELSE acc)

\* edges as handed to the pruner: deduplicated, filtered, sorted.
candidateEdges(raw, similarityThreshold) ==
  SortDesc(SelectSeq(edgeMap(raw, <<>>),
                     LAMBDA e : e.similarity_score >= similarityThreshold))

\* idToNeighbors.get(n).map(e => e.target): built once from the pruned edges.
idToNeighbors(pruned, n) ==
  LET inc == SelectSeq(pruned, LAMBDA e : e.source = n \/ e.target = n)
  IN [i \in DOMAIN inc |-> IF inc[i].source = n THEN inc[i].target ELSE inc[i].source]

\* The candidates one under-connected node adds.  The score is the linear
\* 1 - distance / maxDistance; score > threshold is compared exactly.
backfillOf(n, withCoords, latentCoords, pruned, maxD, k, similarityThreshold) ==
  LET connected == idToNeighbors(pruned, n)
      deg == Len(connected)
      others == SelectSeq(withCoords, LAMBDA o : o # n /\ o \notin Range(connected))
      cands == [i \in DOMAIN others |->
                  [targetId |-> others[i],
                   distance |-> Distance2(latentCoords[n], latentCoords[others[i]])]]
      near == Take(SortByDistance(cands), minDegree(k) - deg)
      pass == SelectSeq(near, LAMBDA c :
                (maxD - c.distance) * ScoreOne > similarityThreshold * maxD)
  IN IF deg >= minDegree(k) THEN <<>>
     ELSE [i \in DOMAIN pass |->
             Edge(n, pass[i].targetId,
                  Max2(0, ((maxD - pass[i].distance) * ScoreOne) \div maxD), "semantic")]

\* The edges pushed by the minimum-degree pass, node after node.
RECURSIVE backfill(_, _, _, _, _, _, _)
backfill(todo, withCoords, latentCoords, pruned, maxD, k, similarityThreshold) ==
  IF todo = <<>> THEN <<>>
  ELSE backfillOf(Head(todo), withCoords, latentCoords, pruned, maxD, k, similarityThreshold)
       \o backfill(Tail(todo), withCoords, latentCoords, pruned, maxD, k, similarityThreshold)

epsilon == 250
minPoints == 2

\* neighbors of a node in the cluster pass: unvisited nodes of the nine cells
\* around it within epsilon (2D).
clusterNeighbors(id, withCoords, latentCoords, gridSize, visited) ==
  LET cells == CellsAround(GridKey(latentCoords[id], gridSize), 1, -1, -1)
      near(o) ==
        LET dx == latentCoords[id].x - latentCoords[o].x
            dy == latentCoords[id].y - latentCoords[o].y
        IN dx * dx + dy * dy <= epsilon * epsilon
  IN SelectSeq(withCoords, LAMBDA o :
       /\ o # id
       /\ o \notin visited
       /\ \E i \in DOMAIN cells : GridKey(latentCoords[o], gridSize) = cells[i]
       /\ near(o))

\* clusterAssignments after the pass: a function from node id to cluster id.
RECURSIVE clusterAssignments(_, _, _, _, _, _, _)
clusterAssignments(todo, withCoords, latentCoords, gridSize, visited, nextClusterId, acc) ==
  IF todo = <<>> THEN acc
  ELSE LET id == Head(todo)
           nb == clusterNeighbors(id, withCoords, latentCoords, gridSize, visited \cup {id})
           members == {id} \cup Range(nb)
       IN IF id \in visited
          THEN clusterAssignments(Tail(todo), withCoords, latentCoords, gridSize,
                                  visited, nextClusterId, acc)
          ELSE IF Len(nb) >= minPoints
          THEN clusterAssignments(Tail(todo), withCoords, latentCoords, gridSize,
                                  visited \cup members, nextClusterId + 1,
                                  [n \in DOMAIN acc \cup members |->
                                     IF n \in members THEN nextClusterId ELSE acc[n]])
          ELSE clusterAssignments(Tail(todo), withCoords, latentCoords, gridSize,
                                  visited \cup {id}, nextClusterId, acc)

\* The (x, y, z) of the node at a position of the list (from 1): its latent
\* coordinates or the grid fallback.
nodePosition(memories, latentCoords, index) ==
  IF memories[index] \in DOMAIN latentCoords
  THEN [x |-> 10 * latentCoords[memories[index]].x,
        y |-> 10 * latentCoords[memories[index]].y,
        z |-> 10 * latentCoords[memories[index]].z]
  ELSE GridFallback(memories, index - 1)

\* getMemoryMesh: what it returns for the memories of the user (newest
\* first), the embedding store and the projection.  pruned and added split
\* the returned edges into those the pruner kept and those of the
\* minimum-degree pass; edges is their concatenation, as returned.
getMemoryMesh(memories, store, projection, similarityThreshold) ==
  LET latentCoords == computeLatentSpaceProjection(memories, store, projection)
      withCoords == nodesWithCoords(memories, latentCoords)
      k == meshK(Len(memories))
      gridSize == CeilSqrt(Len(withCoords))
      distancesOf == [id \in Range(withCoords) |->
                        nodeDistances(id, withCoords, latentCoords, gridSize)]
      maxD == maxDistance(allDistances(distancesOf, withCoords))
      cand == candidateEdges(rawEdges(withCoords, distancesOf, maxD, k, similarityThreshold),
                             similarityThreshold)
      pruned == pruneEdgesMutualKNN(cand, k, similarityThreshold)
      added == backfill(withCoords, withCoords, latentCoords, pruned, maxD, k,
                        similarityThreshold)
      clusterOf == clusterAssignments(withCoords, withCoords, latentCoords, gridSize,
                                      {}, 0, [n \in {} |-> 0])
  IN IF withCoords = <<>>
     THEN [nodes |-> [i \in DOMAIN memories |->
                        [id |-> memories[i]] @@ nodePosition(memories, latentCoords, i)],
           edges |-> <<>>, candidates |-> <<>>, pruned |-> <<>>, added |-> <<>>,
           latentCoords |-> latentCoords]
     ELSE [nodes |-> [i \in DOMAIN memories |->
                        [id |-> memories[i],
                         hasEmbedding |-> memories[i] \in DOMAIN latentCoords,
                         clusterId |-> IF memories[i] \in DOMAIN clusterOf
                                       THEN <<clusterOf[memories[i]]>> ELSE <<>>]
                        @@ nodePosition(memories, latentCoords, i)],
           edges |-> pruned \o added, candidates |-> cand, pruned |-> pruned,
           added |-> added, latentCoords |-> latentCoords]

(***************************************************************************)
(* Inputs of getMemoryMesh.  The projection (UMAP followed by the          *)
(* normalisation of computeLatentSpaceProjection) is an input: it throws,  *)
(* or it places the points on a line, x between -600 and 600 with both     *)
(* ends taken, y and z constant (an axis without spread is normalised to   *)
(* -0.5 times its scale).                                                  *)
(***************************************************************************)
DefaultThreshold == 400

LayoutXs == {-600, -550, -500, 100, 600}

OnLine(x) == [x |-> x, y |-> -600, z |-> -360]

\* The normalised layouts of n points over the given x positions.
Layouts(n, xs) ==
  {[i \in 1..n |-> OnLine(f[i])] : f \in {g \in [1..n -> xs] :
      /\ \E i \in 1..n : g[i] = -600
      /\ \E i \in 1..n : g[i] = 600}}

\* The memories of the user, newest first, and the content points of the store.
MeshStores ==
  {[memories |-> <<3, 2, 1>>, points |-> <<1, 2, 3>>],
   [memories |-> <<3, 2, 1>>, points |-> <<2, 1, 1>>],
   [memories |-> <<3, 2, 1>>, points |-> <<1, 2>>],
   [memories |-> <<3, 2, 1>>, points |-> <<>>],
   [memories |-> <<2, 1>>, points |-> <<1, 2>>],
   [memories |-> <<2, 1>>, points |-> <<1, 1, 2>>],
   [memories |-> <<4, 3, 2, 1>>, points |-> <<1, 2, 3>>],
   [memories |-> <<5, 4, 3, 2, 1>>, points |-> <<5, 4, 3, 2, 1>>]}

\* A crowded mesh: CrowdSize memories, each with one content point.  Memories
\* 1..3 lie on the row y = 300; the others stand in nine columns over the
\* corners, edge centres and centre of the box, seven levels of z to a column.
CrowdSize == 65

CrowdXs == {100, 330, 340}

CrowdThreshold == 1000

Descending(n) == [i \in 1..n |-> n + 1 - i]

CrowdColumn(id) ==
  LET j == id - 4
  IN [x |-> 600 * ((j \div 7) % 3) - 600,
      y |-> 600 * ((j \div 7) \div 3) - 600,
      z |-> 120 * (j % 7) - 360]

CrowdLayouts ==
  {[i \in 1..CrowdSize |->
      IF i <= 3 THEN [x |-> f[i], y |-> 300, z |-> 0] ELSE CrowdColumn(i)] :
     f \in {g \in [1..3 -> CrowdXs] : g[1] <= g[2] /\ g[2] <= g[3] /\ g[1] < g[3]}}

MeshInputs ==
  {[memories |-> st.memories, store |-> [fails |-> TRUE, points |-> st.points],
    projection |-> [throws |-> FALSE, coords |-> <<>>],
    similarityThreshold |-> DefaultThreshold] : st \in MeshStores}
  \cup {[memories |-> st.memories, store |-> [fails |-> FALSE, points |-> st.points],
         projection |-> [throws |-> TRUE, coords |-> <<>>],
         similarityThreshold |-> DefaultThreshold] : st \in MeshStores}
  \cup UNION {{[memories |-> st.memories, store |-> [fails |-> FALSE, points |-> st.points],
                projection |-> [throws |-> FALSE, coords |-> c],
                similarityThreshold |-> DefaultThreshold] :
                 c \in IF Len(st.points) < 3 THEN {<<>>}
                       ELSE Layouts(Len(st.points), LayoutXs)} : st \in MeshStores}
  \cup {[memories |-> Descending(CrowdSize),
         store |-> [fails |-> FALSE, points |-> Descending(CrowdSize)],
         projection |-> [throws |-> FALSE, coords |-> c],
         similarityThreshold |-> CrowdThreshold] : c \in CrowdLayouts}

\* A call of getMemoryMesh.
Mesh ==
  /\ call.pc = "idle"
  /\ \E in \in MeshInputs :
       call' = [pc |-> "mesh", memories |-> in.memories, store |-> in.store,
                projection |-> in.projection,
                similarityThreshold |-> in.similarityThreshold,
                out |-> getMemoryMesh(in.memories, in.store, in.projection,
                                      in.similarityThreshold)]
  /\ UNCHANGED <<rows, nextId, cache, now, task, req, log, limiter>>

NextMesh == Prune \/ Mesh \/ ReturnCall

SpecMesh == Init /\ [][NextMesh]_vars

(***************************************************************************)
(* Properties of the pruner and of the mesh edges.                         *)
(***************************************************************************)
NodesOf(edgeList) ==
  {edgeList[i].source : i \in DOMAIN edgeList} \cup {edgeList[i].target : i \in DOMAIN edgeList}

\* C11: every edge returned by pruneEdgesMutualKNN joins two nodes each of
\* which is among the other's k highest-weight neighbours, and every edge
\* returned by getMemoryMesh is such an edge of the candidate list or an edge
\* added by the minimum-degree pass.
SurvivorsAreMutualTopK ==
  /\ call.pc = "pruned" =>
       \A i \in DOMAIN call.out :
         MutualTopK(call.edges, call.k, call.similarityThreshold, call.out[i])
  /\ call.pc = "mesh" =>
       \A i \in DOMAIN call.out.edges :
         \/ i > Len(call.out.pruned)
         \/ MutualTopK(call.out.candidates, meshK(Len(call.memories)),
                       call.similarityThreshold, call.out.edges[i])

\* The pruner returned edges and dropped an admitted edge that is not mutual.
NonMutualEdgeDropped ==
  /\ call.pc = "pruned"
  /\ Len(call.out) >= 1
  /\ \E i \in DOMAIN call.edges :
       /\ EntersAdjacency(call.edges[i], call.similarityThreshold)
       /\ ~MutualTopK(call.edges, call.k, call.similarityThreshold, call.edges[i])
       /\ \A j \in DOMAIN call.out :
            {call.out[j].source, call.out[j].target}
              # {call.edges[i].source, call.edges[i].target}

\* C12: in the list returned by pruneEdgesMutualKNN no node is an endpoint of
\* more than clamp(k + 1, 2, 5) edges.
PrunedDegreeWithinCap ==
  /\ call.pc = "pruned" =>
       \A n \in NodesOf(call.edges) :
         Degree(call.out, n) <= Max2(2, Min2(5, call.k + 1))
  /\ call.pc = "mesh" =>
       \A n \in Range(call.memories) :
         Degree(call.out.pruned, n) <= Max2(2, Min2(5, meshK(Len(call.memories)) + 1))

\* The cap bound: a node reached it and a mutual edge was refused.
CapRefusedAnEdge ==
  /\ call.pc = "pruned"
  /\ Len(kept(call.edges, call.k, call.similarityThreshold)) > Len(call.out)
  /\ \E n \in NodesOf(call.edges) :
       Degree(call.out, n) = Max2(2, Min2(5, call.k + 1))

\* C13: in the edges returned by getMemoryMesh a node's degree exceeds
\* clamp(k + 1, 2, 5) only through edges of the minimum-degree pass, and that
\* pass never raises a node's degree above the minimum-degree target.
BackfillStaysWithinTarget ==
  call.pc = "mesh" =>
    \A n \in Range(call.memories) :
      LET k == meshK(Len(call.memories))
      IN /\ Degree(call.out.edges, n) > Max2(2, Min2(5, k + 1))
              => Degree(call.out.edges, n) > Degree(call.out.pruned, n)
         /\ Degree(call.out.edges, n) > Degree(call.out.pruned, n)
              => Degree(call.out.edges, n) <= minDegree(k)

\* The requested memories that have a content point in the store.
WithContentEmbedding(memories, store) ==
  {id \in Range(memories) : id \in Range(store.points)}

\* C14: when fewer than 3 of the requested memories have a content embedding,
\* or the vector store fails, the coordinate map is empty and getMemoryMesh
\* returns every memory at its grid-fallback position, without edges and
\* without cluster ids.
FewEmbeddingsMeanGridFallback ==
  (/\ call.pc = "mesh"
   /\ \/ call.store.fails
      \/ Cardinality(WithContentEmbedding(call.memories, call.store)) < 3)
  => /\ call.out.latentCoords = NoCoords
     /\ call.out.edges = <<>>
     /\ Len(call.out.nodes) = Len(call.memories)
     /\ \A i \in DOMAIN call.out.nodes :
          LET n == call.out.nodes[i]
              at == GridFallback(call.memories, i - 1)
          IN /\ n.id = call.memories[i]
             /\ n.x = at.x /\ n.y = at.y /\ n.z = at.z
             /\ "clusterId" \in DOMAIN n => n.clusterId = <<>>

\* The not-yet-visited laid-out nodes within epsilon of a node, wherever they
\* lie on the grid.
WithinRadius(id, withCoords, latentCoords, visited) ==
  SelectSeq(withCoords, LAMBDA o :
    /\ o # id
    /\ o \notin visited
    /\ LET dx == latentCoords[id].x - latentCoords[o].x
           dy == latentCoords[id].y - latentCoords[o].y
       IN dx * dx + dy * dy <= epsilon * epsilon)

\* The cluster pass as described: every unvisited node gathers all unvisited
\* nodes within the radius and starts a cluster iff there are minPoints of them.
RECURSIVE RadiusClusters(_, _, _, _, _, _)
RadiusClusters(todo, withCoords, latentCoords, visited, nextClusterId, acc) ==
  IF todo = <<>> THEN acc
  ELSE LET id == Head(todo)
           nb == WithinRadius(id, withCoords, latentCoords, visited \cup {id})
           members == {id} \cup Range(nb)
       IN IF id \in visited
          THEN RadiusClusters(Tail(todo), withCoords, latentCoords, visited,
                              nextClusterId, acc)
          ELSE IF Len(nb) >= minPoints
          THEN RadiusClusters(Tail(todo), withCoords, latentCoords, visited \cup members,
                              nextClusterId + 1,
                              [n \in DOMAIN acc \cup members |->
                                 IF n \in members THEN nextClusterId ELSE acc[n]])
          ELSE RadiusClusters(Tail(todo), withCoords, latentCoords, visited \cup {id},
                              nextClusterId, acc)

\* C20: in the cluster pass every not-yet-visited laid-out node within 250
\* layout units of the processed node is gathered, and the node starts a
\* cluster of itself and those neighbours iff there are at least 2 of them:
\* the cluster ids returned are those of the pass over the radius.
ClusterPassGathersWholeRadius ==
  (call.pc = "mesh" /\ call.out.latentCoords # NoCoords) =>
    LET withCoords == nodesWithCoords(call.memories, call.out.latentCoords)
        byRadius == RadiusClusters(withCoords, withCoords, call.out.latentCoords,
                                   {}, 0, [n \in {} |-> 0])
    IN \A i \in DOMAIN call.out.nodes :
         call.out.nodes[i].clusterId =
           IF call.out.nodes[i].id \in DOMAIN byRadius
           THEN <<byRadius[call.out.nodes[i].id]>> ELSE <<>>

(***************************************************************************)
(* MeshClusteringService.getMemoryCluster.  The store is a set of memory   *)
(* ids and a list of relation rows [memory_id, related_memory_id,          *)
(* similarity_score] in the order the database returns equal scores.       *)
(***************************************************************************)
ClusterTake == 5

ClusterMinScore == 300

\* memory.related_memories: orderBy similarity_score desc, take 5.
related_memories(relations, memoryId) ==
  Take(SortDesc(SelectSeq(relations, LAMBDA r : r.memory_id = memoryId)), ClusterTake)

\* processMemory and its loop over the relations; st is [visited, cluster],
\* cluster holding the ids in the order they were set.
RECURSIVE processMemory(_, _, _, _, _, _)
RECURSIVE processRelations(_, _, _, _, _, _)
processMemory(existing, relations, memoryId, currentDepth, depth, st) ==
  IF currentDepth > depth \/ memoryId \in st.visited THEN st
  ELSE LET seen == [st EXCEPT !.visited = @ \cup {memoryId}]
       IN IF memoryId \notin existing THEN seen
          ELSE processRelations(existing, relations,
                                related_memories(relations, memoryId), currentDepth, depth,
                                [seen EXCEPT !.cluster = Append(@, memoryId)])

processRelations(existing, relations, list, currentDepth, depth, st) ==
  IF list = <<>> THEN st
  ELSE processRelations(existing, relations, Tail(list), currentDepth, depth,
         IF Head(list).similarity_score > ClusterMinScore
         THEN processMemory(existing, relations, Head(list).related_memory_id,
                            currentDepth + 1, depth, st)
         ELSE st)

\* relations of the result: the followed relations of the cluster's memories.
RECURSIVE clusterRelations(_, _)
clusterRelations(relations, cluster) ==
  IF cluster = <<>> THEN <<>>
  ELSE LET own == SelectSeq(related_memories(relations, Head(cluster)),
                            LAMBDA r : r.similarity_score > ClusterMinScore)
       IN [i \in DOMAIN own |->
             Edge(Head(cluster), own[i].related_memory_id, own[i].similarity_score,
                  "semantic")]
          \o clusterRelations(relations, Tail(cluster))

getMemoryCluster(existing, relations, centerMemoryId, depth) ==
  LET st == processMemory(existing, relations, centerMemoryId, 0, depth,
                          [visited |-> {}, cluster |-> <<>>])
  IN [memories |-> st.cluster, relations |-> clusterRelations(relations, st.cluster)]

\* Inputs: four memories and relation rows over seven ordered pairs, each
\* absent, weak (0.2) or strong (a score of its own above 0.3); and a memory
\* with more relations than are taken.
ClusterMemories == {1, 2, 3, 4}

MaxDepth == 2

Relation(memoryId, relatedId, score) ==
  [memory_id |-> memoryId, related_memory_id |-> relatedId, similarity_score |-> score]

ClusterPairs == <<<<1, 2>>, <<1, 3>>, <<2, 3>>, <<3, 2>>, <<2, 4>>, <<3, 4>>, <<4, 1>>>>

RECURSIVE RelationTables(_)
RelationTables(n) ==
  IF n = 0 THEN {<<>>}
  ELSE LET p == ClusterPairs[n]
       IN UNION {{t, Append(t, Relation(p[1], p[2], 200)),
                  Append(t, Relation(p[1], p[2], 500 + 50 * p[2]))} :
                 t \in RelationTables(n - 1)}

\* Memory 1 with six relations above 0.3; the weakest leads to memory 8.
ManyRelations ==
  [i \in 1..6 |-> Relation(1, i + 1, 950 - 50 * i)] \o <<Relation(7, 8, 900), Relation(2, 8, 900)>>

ClusterInputs ==
  {[existing |-> ClusterMemories, relations |-> t, center |-> c, depth |-> d] :
     t \in RelationTables(Len(ClusterPairs)), c \in {1, 2, 5}, d \in 0..MaxDepth}
  \cup {[existing |-> 1..8, relations |-> sub, center |-> 1, depth |-> d] :
          sub \in {ManyRelations, SubSeq(ManyRelations, 1, 5) \o SubSeq(ManyRelations, 7, 8)},
          d \in 0..MaxDepth}

\* The callers, and the owner of each stored memory: every stored memory is
\* u1's, u2 has none.
ClusterUsers == {"u1", "u2"}

ClusterOwner(existing) == [m \in existing |-> "u1"]

\* A call getMemoryCluster(userId, centerMemoryId, depth).  userId is passed
\* to no query of the function, so the result is computed without it.
Cluster ==
  /\ call.pc = "idle"
  /\ \E in \in ClusterInputs, userId \in ClusterUsers :
       call' = [pc |-> "cluster", userId |-> userId, owner |-> ClusterOwner(in.existing),
                existing |-> in.existing, relations |-> in.relations,
                center |-> in.center, depth |-> in.depth,
                out |-> getMemoryCluster(in.existing, in.relations, in.center, in.depth)]
  /\ UNCHANGED <<rows, nextId, cache, now, task, req, log, limiter>>

NextCluster == Cluster \/ ReturnCall

SpecCluster == Init /\ [][NextCluster]_vars

\* A hop: one of a memory's five highest-scoring relations with score > 0.3.
Hops(relations, memoryId) ==
  {r.related_memory_id : r \in {x \in Range(related_memories(relations, memoryId)) :
                                  x.similarity_score > ClusterMinScore}}

\* The memories within d hops of the center.
RECURSIVE WithinHops(_, _, _)
WithinHops(relations, center, d) ==
  IF d = 0 THEN {center}
  ELSE LET near == WithinHops(relations, center, d - 1)
       IN near \cup UNION {Hops(relations, m) : m \in near}

\* C15: getMemoryCluster returns exactly the existing memories whose hop
\* distance from the center is at most depth.
ClusterIsBreadthLimited ==
  call.pc = "cluster" =>
    Range(call.out.memories)
      = WithinHops(call.relations, call.center, call.depth) \cap call.existing

(***************************************************************************)
(* Properties of the candidate pipeline of createMemoryRelations.          *)
(***************************************************************************)
\* C16: the output of deduplicateRelations holds each related memory at most
\* once, with the highest score among its occurrences, and drops no related
\* memory.
DedupKeepsBestPerMemory ==
  \A t \in Tasks :
    LET run == task[t]
        all == allRelations(run.memoryId, run.in)
    IN (run.pc # "idle" /\ ~FindersThrow(run.in)) =>
         /\ DistinctMemories(run.unique)
         /\ \A j \in DOMAIN run.unique : \E i \in DOMAIN all : run.unique[j] = all[i]
         /\ \A i \in DOMAIN all :
              \E j \in DOMAIN run.unique :
                /\ run.unique[j].memory = all[i].memory
                /\ run.unique[j].similarity_score >= all[i].similarity_score

\* C17: every candidate kept by batchEvaluateWithAI is one whose own
\* evaluation is relevant with relevance >= 0.3, rescored by that evaluation
\* and typed by it unless it says 'none'.
KeptByOwnEvaluation ==
  \A t \in Tasks :
    LET run == task[t]
        out == batchEvaluateWithAI(run.ai, run.evaluations)
        own == {i \in DOMAIN run.ai : EvaluationKeeps(run.evaluations[i])}
    IN (PastFilter(run) /\ run.ai # <<>>) =>
         /\ Len(out) = Cardinality(own)
         /\ \A k \in DOMAIN out :
              \E i \in own : out[k] = Rescored(run.ai[i], run.evaluations[i])

(***************************************************************************)
(* SpecFallback: one run for memory 1 from an empty store, over finder     *)
(* answers that the filter may reject altogether: scores below the         *)
(* low-confidence band, and low-confidence scores the judge turns down.    *)
(***************************************************************************)
FallbackInputs ==
  {Input(TRUE, aiInit, sem, top, tmp) :
     aiInit \in BOOLEAN,
     sem \in FinderResults({3}, {320, 450}, MaxRawLen),
     top \in FinderResults({5}, {280, 460}, MaxRawLen),
     tmp \in FinderResults({3, 4}, {350, 480}, MaxRawLen)}

FallbackResponses ==
  JudgeArrays({JudgeSays(TRUE, 900, "semantic"), JudgeSays(FALSE, 0, "none")}, MaxJudgeItems)

BeginFallback == \E in \in FallbackInputs : BeginRun("t1", 1, in)

JudgeFallback == \E response \in FallbackResponses : JudgeReturn("t1", response)

NextFallback ==
  \/ BeginFallback
  \/ JudgeFallback
  \/ Cleanup1("t1")
  \/ Cleanup2("t1")
  \/ Cleanup4("t1")
  \/ \E i \in 1..FallbackTake : Lookup("t1", i) \/ Create("t1", i) \/ Update("t1", i)
  \/ Finish("t1")

SpecFallback == Init /\ [][NextFallback]_vars

\* What a stored row says of a relation, and what a candidate asks to store.
RowFacts(r) ==
  [related |-> r.related_memory_id, score |-> r.similarity_score, type |-> r.relation_type]

CandidateFacts(c) ==
  [related |-> c.memory, score |-> c.similarity_score, type |-> c.relation_type]

\* C18: when the filter keeps nothing the run persists exactly the (at most
\* 3) highest-scoring deduplicated candidates with score >= 0.3, typed by
\* their finder (a row per related memory among them, holding that memory's
\* best candidate); when the filter keeps a relation the fallback is not
\* applied.
FallbackPersistsStrongest ==
  \A t \in Tasks :
    LET run == task[t]
        eligible == {i \in DOMAIN run.unique :
                       run.unique[i].similarity_score >= FallbackMin}
    IN /\ (PastFilter(run) /\ run.filtered # <<>>) => run.batch = run.filtered
       /\ (run.pc = "done" /\ run.filtered = <<>>) =>
            \E S \in SUBSET eligible :
              /\ Cardinality(S) = Min2(FallbackTake, Cardinality(eligible))
              /\ \A i \in S, j \in eligible \ S :
                   run.unique[i].similarity_score >= run.unique[j].similarity_score
              /\ {r.related_memory_id : r \in RowsOf(rows, run.memoryId)}
                   = {run.unique[i].memory : i \in S}
              /\ \A r \in RowsOf(rows, run.memoryId) :
                   \E i \in S :
                     /\ RowFacts(r) = CandidateFacts(run.unique[i])
                     /\ \A j \in S : run.unique[j].memory = run.unique[i].memory
                          => run.unique[j].similarity_score <= run.unique[i].similarity_score

(***************************************************************************)
(* Postconditions of cleanupLowQualityRelations, on the runs of            *)
(* SpecCleanup (one run for memory 1 over a preloaded store).              *)
(***************************************************************************)
IsStale(r) == r.similarity_score < StaleFloor /\ r.created_at < now - ThirtyDays

\* C19: when cleanupLowQualityRelations(M) has completed without a store
\* error, M has at most 10 rows, none below 0.3 and none both below 0.4 and
\* older than 30 days; the rows the cap removed score no higher than any row
\* left; and a store error inside cleanup does not fail the caller.
CleanupPostconditions ==
  LET run == task["t1"]
  IN /\ (run.cleaned /\ ~HasWritten(run)) =>
          /\ Cardinality(RowsOf(rows, 1)) <= MaxRelationsPerMemory
          /\ \A r \in RowsOf(rows, 1) : r.similarity_score >= CleanupFloor /\ ~IsStale(r)
          /\ \A id \in run.excess : \A r \in RowsOf(rows, 1) :
               PreloadedRow(id).similarity_score <= r.similarity_score
     /\ [src |-> "cleanupLowQualityRelations", id |-> 1] \in log => run.pc \in {"writing", "done"}

\* Cleanup has just completed and each of its three deletes removed a row.
CleanupRemovedOfEachKind ==
  LET run == task["t1"]
  IN /\ run.cleaned /\ run.pc = "writing" /\ ~HasWritten(run)
     /\ run.excess # {}
     /\ PreloadedRow(1) \notin rows
     /\ 2 \notin run.excess /\ PreloadedRow(2) \notin rows
     /\ Cardinality(rows) >= MaxRelationsPerMemory - 1

(***************************************************************************)
(* Set overlap of the topical finder.  Strings are small integers; the     *)
(* result is the fraction num / den, kept unreduced.                       *)
(***************************************************************************)
\* calculateSetOverlap(setA, setB): filter keeps every position of setA whose
\* item occurs in setB; the union is built through a Set.
calculateSetOverlap(setA, setB) ==
  IF Len(setA) = 0 \/ Len(setB) = 0 THEN [num |-> 0, den |-> 1]
  ELSE LET intersection == SelectSeq(setA, LAMBDA item : Includes(setB, item))
           unionSet == Range(setA \o setB)
       IN [num |-> Len(intersection), den |-> Cardinality(unionSet)]

MaxTerms == 3

Terms == {1, 2, 3}

TermLists == UNION {[1..n -> Terms] : n \in 0..MaxTerms}

\* A call of calculateSetOverlap from findTopicalRelations.
Overlap ==
  /\ call.pc = "idle"
  /\ \E setA \in TermLists, setB \in TermLists :
       call' = [pc |-> "overlap", setA |-> setA, setB |-> setB,
                out |-> calculateSetOverlap(setA, setB)]
  /\ UNCHANGED <<rows, nextId, cache, now, task, req, log, limiter>>

NextOverlap == Overlap \/ ReturnCall

SpecOverlap == Init /\ [][NextOverlap]_vars

\* The Jaccard ratio of the two sets of items, 0 when either is empty.
Jaccard(setA, setB) ==
  IF Range(setA) = {} \/ Range(setB) = {} THEN [num |-> 0, den |-> 1]
  ELSE [num |-> Cardinality(Range(setA) \cap Range(setB)),
        den |-> Cardinality(Range(setA) \cup Range(setB))]

SameRatio(p, q) == p.num * q.den = q.num * p.den

\* C21: for all sequences, with repeated elements too, calculateSetOverlap
\* equals the Jaccard ratio of the two sets, lies in [0,1] and is symmetric.
OverlapIsJaccard ==
  call.pc = "overlap" =>
    /\ SameRatio(call.out, Jaccard(call.setA, call.setB))
    /\ call.out.num >= 0 /\ call.out.num <= call.out.den
    /\ SameRatio(call.out, calculateSetOverlap(call.setB, call.setA))

(***************************************************************************)
(* SpecRewrite: two concurrent runs for memory 1 against a store that      *)
(* already holds the row of the pair (1, 3); in each run one finder        *)
(* reports memory 3 once, with high confidence.                            *)
(***************************************************************************)
RewriteInputs ==
  {Input(TRUE, TRUE, Found(<<Scored(3, s)>>), NoFinder, NoFinder) : s \in {750, 900}}

InitRewrite ==
  /\ rows = {Row(1, 1, 3, 500, "semantic", 1990)}
  /\ nextId = 2
  /\ cache = <<>>
  /\ now = 2000
  /\ task = [t \in Tasks |-> IdleTask]
  /\ req = NoRequest
  /\ call = NoCall
  /\ limiter = NoLimiter
  /\ log = {}

BeginRewrite(t) == \E in \in RewriteInputs : BeginRun(t, 1, in)

NextRewrite ==
  \E t \in Tasks :
    \/ BeginRewrite(t)
    \/ Cleanup1(t)
    \/ Cleanup2(t)
    \/ Cleanup4(t)
    \/ CleanupFails(t)
    \/ \E i \in 1..MaxFiltered : Lookup(t, i) \/ Update(t, i)
    \/ Finish(t)

SpecRewrite == InitRewrite /\ [][NextRewrite]_vars

\* C22: while a row exists its stored similarity_score never decreases: each
\* write replaces the score only with a strictly higher one than the score the
\* row holds at the moment of the write, in every interleaving of the runs.
ScoreNeverDecreases ==
  [][\A r \in rows : \A s \in rows' :
       s.id = r.id => s.similarity_score >= r.similarity_score]_vars

(***************************************************************************)
(* Properties of the evaluation cache under judge failures.                *)
(***************************************************************************)
\* C23: the evaluation cache only ever holds evaluations produced by the
\* judge; the not-relevant default substituted when a judge call fails, times
\* out or returns malformed output is never inserted.
CacheHoldsOnlyJudgments ==
  \A key \in DOMAIN cache : cache[key].evaluation.reasoning # "Evaluation failed"

(***************************************************************************)
(* What a run writes of the candidates the judge turned down.              *)
(***************************************************************************)
\* The judge's answer for candidate i of the batch turns the candidate down.
TurnedDown(run, i) ==
  LET ev == ElementAt(run.evaluations, i)
  IN ev.defined /\ (~ev.isRelevant \/ ev.relevanceScore < MinRelevance)

\* The run has inserted or updated a row from low-confidence candidate c.
WroteFrom(run, c) ==
  \E k \in DOMAIN run.w :
    /\ StemsFrom(run.w[k].rel, c)
    /\ run.w[k].outcome \in {"created", "updated"}

\* C24 as claimed: a low-confidence candidate sent to the judge and judged not
\* relevant (or given relevance below 0.3) is never inserted or updated in the
\* relation store by that same run.
RejectedNeverWritten ==
  \A t \in Tasks :
    \A i \in DOMAIN task[t].ai :
      TurnedDown(task[t], i) => ~WroteFrom(task[t], task[t].ai[i])

\* C24, amended: the same, for the runs whose filter kept at least one
\* relation; when the filter keeps nothing, the fallback may write the
\* turned-down candidate at its original score.
RejectedWrittenOnlyByFallback ==
  \A t \in Tasks :
    \A i \in DOMAIN task[t].ai :
      (TurnedDown(task[t], i) /\ task[t].filtered # <<>>)
        => ~WroteFrom(task[t], task[t].ai[i])

\* C24 witness: a finished run whose judge turned one candidate down and whose
\* filter kept another relation, which the run has inserted.
RejectedDroppedOtherWritten ==
  LET run == task["t1"]
  IN /\ run.pc = "done"
     /\ run.response.kind = "array"
     /\ \E i \in DOMAIN run.ai : TurnedDown(run, i)
     /\ run.filtered # <<>>
     /\ \E k \in DOMAIN run.w : run.w[k].outcome = "created"

(***************************************************************************)
(* Further properties of the pruner and of the mesh's edge list.           *)
(***************************************************************************)
\* C25: every edge returned by pruneEdgesMutualKNN has weight (similarity
\* score plus its own type bonus) at least the threshold, also when the input
\* holds two edges for the same unordered pair.
PrunedEdgesReachThreshold ==
  call.pc = "pruned" =>
    \A i \in DOMAIN call.out : weighted(call.out[i]) >= call.similarityThreshold

\* C26: the edge list returned by getMemoryMesh holds no self-loop and at most
\* one edge per unordered pair of nodes, the edges added by the minimum-degree
\* backfill included.
MeshEdgesAreSimple ==
  call.pc = "mesh" =>
    LET edges == call.out.edges
    IN /\ \A i \in DOMAIN edges : edges[i].source # edges[i].target
       /\ \A i, j \in DOMAIN edges :
            i # j => keyFor(edges[i].source, edges[i].target)
                       # keyFor(edges[j].source, edges[j].target)

(***************************************************************************)
(* Further properties of getMemoryCluster.                                 *)
(***************************************************************************)
\* C27: in the result of getMemoryCluster the source and the target of every
\* returned relation are both members of the returned memories list, for
\* every stored relation graph and every depth >= 0.
ClusterRelationsStayInside ==
  call.pc = "cluster" =>
    \A i \in DOMAIN call.out.relations :
      /\ call.out.relations[i].source \in Range(call.out.memories)
      /\ call.out.relations[i].target \in Range(call.out.memories)

\* C28: every memory and every relation endpoint returned by
\* getMemoryCluster(userId, centerMemoryId, depth) belongs to the user userId;
\* a center memory owned by another user yields no memories of that user.
ClusterStaysWithTheCaller ==
  call.pc = "cluster" =>
    LET mine(m) == m \in DOMAIN call.owner => call.owner[m] = call.userId
    IN /\ \A i \in DOMAIN call.out.memories : mine(call.out.memories[i])
       /\ \A i \in DOMAIN call.out.relations :
            mine(call.out.relations[i].source) /\ mine(call.out.relations[i].target)

(***************************************************************************)
(* The AI rate limiter: runWithRateLimit and processQueue.                 *)
(*                                                                         *)
(* Time is relative and counted in units of 2000 ms: nextAvailableIn is    *)
(* nextAvailableAt - Date.now() (0 when that is negative), and left is the *)
(* time a timer still has to run.  A job is one call of runWithRateLimit;  *)
(* proc[t] is the activation of processQueue made by job t's submission.   *)
(* starts and expiredInQueue are history: how often the job's task was     *)
(* invoked, and whether its timeout fired while it sat in taskQueue.       *)
(***************************************************************************)
minIntervalMs == 3

\* extractRetryDelayMs for an error with status 429 and no retry hint: 8000 ms.
TooManyRequestsMs == 4

\* taskQueue.sort((a, b) => b.priority - a.priority): stable.
RECURSIVE InsertByPriority(_, _, _)
InsertByPriority(sorted, t, job) ==
  IF sorted = <<>> THEN <<t>>
  ELSE IF job[Head(sorted)].priority >= job[t].priority
       THEN <<Head(sorted)>> \o InsertByPriority(Tail(sorted), t, job)
       ELSE <<t>> \o sorted

RECURSIVE SortByPriority(_, _)
SortByPriority(queue, job) ==
  IF queue = <<>> THEN <<>>
  ELSE InsertByPriority(SortByPriority(SubSeq(queue, 1, Len(queue) - 1), job),
                        queue[Len(queue)], job)

\* finally { isProcessingQueue = false }
LeaveQueue(q, p) == [q EXCEPT !.isProcessingQueue = FALSE, !.proc[p] = [NoProc EXCEPT !.pc = "exited"]]

\* const { run, resolve, reject } = taskQueue.shift()!, then run(): executeTask
\* invokes the task.  Destructuring the undefined of an empty queue throws,
\* which leaves through the finally.
ShiftAndRun(q, p) ==
  IF q.taskQueue = <<>> THEN LeaveQueue(q, p)
  ELSE LET t == Head(q.taskQueue)
       IN [q EXCEPT !.taskQueue = Tail(@),
                    !.job[t].st = "running",
                    !.job[t].starts = @ + 1,
                    !.proc[p] = [pc |-> "running", left |-> 0, cur |-> t]]

\* The head of the while loop, up to its first await.
LoopHead(q, p) ==
  IF q.taskQueue = <<>> THEN LeaveQueue(q, p)
  ELSE LET sorted == [q EXCEPT !.taskQueue = SortByPriority(@, q.job)]
       IN IF q.nextAvailableIn > 0
          THEN [sorted EXCEPT !.proc[p] = [pc |-> "waiting", left |-> q.nextAvailableIn,
                                           cur |-> 0]]
          ELSE ShiftAndRun(sorted, p)

\* A limiter whose processQueue never takes the early return.
NeverProcessing(q) == FALSE

\* if (isProcessingQueue) return
AlreadyProcessing(q) == q.isProcessingQueue

\* processQueue(), called by job p's submission.
processQueue(q, p) ==
  IF AlreadyProcessing(q) THEN [q EXCEPT !.proc[p] = [NoProc EXCEPT !.pc = "returned"]]
  ELSE LoopHead([q EXCEPT !.isProcessingQueue = TRUE], p)

\* runWithRateLimit(task, timeoutMs, bypassRateLimit, priority): the timer is
\* armed; the task runs at once (bypass) or is pushed and processQueue called.
runWithRateLimit(t, timeoutMs, bypassRateLimit, priority) ==
  /\ limiter.job[t].st = "none"
  /\ LET armed == [limiter EXCEPT
                     !.job[t] = [NoJob EXCEPT !.st = "queued", !.priority = priority,
                                              !.bypass = bypassRateLimit,
                                              !.timer = "armed", !.left = timeoutMs,
                                              !.promise = "pending"]]
     IN limiter' =
          IF bypassRateLimit
          THEN [armed EXCEPT !.job[t].st = "running", !.job[t].starts = 1]
          ELSE processQueue([armed EXCEPT !.taskQueue = Append(@, t)], t)
  /\ UNCHANGED <<rows, nextId, cache, now, task, req, log, call>>

\* The task's promise settles inside executeTask: clearTimeout, then the
\* result is returned or the error rethrown.  A bypassing job's promise is
\* settled by executeTask().then(resolve).catch(reject).
executeTask(t, ok, retryDelayMs) ==
  /\ limiter.job[t].st = "running"
  /\ limiter' = [limiter EXCEPT
       !.job[t].timer = IF @ = "armed" THEN "cleared" ELSE @,
       !.job[t].left = 0,
       !.job[t].result = IF limiter.job[t].bypass THEN "" ELSE IF ok THEN "ok" ELSE "error",
       !.job[t].delay = IF ok \/ limiter.job[t].bypass THEN 0 ELSE retryDelayMs,
       !.job[t].st = IF limiter.job[t].bypass THEN "done" ELSE "settled",
       !.job[t].promise = IF limiter.job[t].bypass /\ @ = "pending"
                          THEN (IF ok THEN "resolved" ELSE "rejected") ELSE @]
  /\ UNCHANGED <<rows, nextId, cache, now, task, req, log, call>>

\* processQueue after await run(): resolve(result) and nextAvailableAt =
\* Date.now() + minIntervalMs, or the catch's nextAvailableAt = Date.now() +
\* retryDelayMs and reject(error); then the loop's next round.
Continue(p) ==
  /\ limiter.proc[p].pc = "running"
  /\ LET t == limiter.proc[p].cur
     IN /\ limiter.job[t].st = "settled"
        /\ limiter' = LoopHead(
             [limiter EXCEPT
                !.job[t].st = "done",
                !.job[t].result = "",
                !.job[t].delay = 0,
                !.job[t].promise = IF @ = "pending"
                                   THEN (IF limiter.job[t].result = "ok" THEN "resolved"
                                         ELSE "rejected")
                                   ELSE @,
                !.nextAvailableIn = IF limiter.job[t].result = "ok" THEN minIntervalMs
                                    ELSE limiter.job[t].delay], p)
  /\ UNCHANGED <<rows, nextId, cache, now, task, req, log, call>>

\* processQueue after await new Promise(r => setTimeout(r, waitMs)).
WakeUp(p) ==
  /\ limiter.proc[p].pc = "waiting"
  /\ limiter.proc[p].left = 0
  /\ limiter' = ShiftAndRun(limiter, p)
  /\ UNCHANGED <<rows, nextId, cache, now, task, req, log, call>>

\* The timeout's callback: reject(new Error('Operation timed out ...')), which
\* settles the promise unless it is settled already.
Timeout(t) ==
  /\ limiter.job[t].timer = "armed"
  /\ limiter.job[t].left = 0
  /\ limiter' = [limiter EXCEPT
       !.job[t].timer = "fired",
       !.job[t].promise = IF @ = "pending" THEN "timedout" ELSE @,
       !.job[t].expiredInQueue = (limiter.job[t].st = "queued")]
  /\ UNCHANGED <<rows, nextId, cache, now, task, req, log, call>>

\* One unit of time passes for every running timer and for nextAvailableAt,
\* once the callbacks of the timers that are due have run.
Elapse ==
  /\ \A t \in Jobs : ~(limiter.job[t].timer = "armed" /\ limiter.job[t].left = 0)
  /\ \A p \in Jobs : ~(limiter.proc[p].pc = "waiting" /\ limiter.proc[p].left = 0)
  /\ \/ limiter.nextAvailableIn > 0
     \/ \E t \in Jobs : limiter.job[t].timer = "armed" /\ limiter.job[t].left > 0
     \/ \E p \in Jobs : limiter.proc[p].pc = "waiting" /\ limiter.proc[p].left > 0
  /\ limiter' = [limiter EXCEPT
       !.nextAvailableIn = Max2(0, @ - 1),
       !.job = [t \in Jobs |->
                  IF @[t].timer = "armed" THEN [@[t] EXCEPT !.left = Max2(0, @ - 1)] ELSE @[t]],
       !.proc = [p \in Jobs |->
                   IF @[p].pc = "waiting" THEN [@[p] EXCEPT !.left = Max2(0, @ - 1)] ELSE @[p]]]
  /\ UNCHANGED <<rows, nextId, cache, now, task, req, log, call>>

\* The callers' arguments and the tasks' errors.
TimeoutsMs == {1, 5}
Priorities == {0, 1}
RetryDelaysMs == {minIntervalMs, TooManyRequestsMs}

Submit ==
  \E t \in Jobs, timeoutMs \in TimeoutsMs, bypassRateLimit \in BOOLEAN, priority \in Priorities :
    /\ \A u \in Jobs : u < t => limiter.job[u].st # "none"
    /\ runWithRateLimit(t, timeoutMs, bypassRateLimit, priority)

TaskSettles ==
  \E t \in Jobs :
    \/ executeTask(t, TRUE, 0)
    \/ \E retryDelayMs \in RetryDelaysMs : executeTask(t, FALSE, retryDelayMs)

NextLimiter ==
  \/ Submit
  \/ TaskSettles
  \/ \E p \in Jobs : Continue(p)
  \/ \E p \in Jobs : WakeUp(p)
  \/ \E t \in Jobs : Timeout(t)
  \/ Elapse

SpecLimiter == Init /\ [][NextLimiter]_vars

\* The event loop runs every callback that is due, time passes, and every task
\* that was invoked settles.
SpecLimiterFair ==
  /\ SpecLimiter
  /\ WF_vars(TaskSettles)
  /\ WF_vars(Elapse)
  /\ \A p \in Jobs : WF_vars(Continue(p)) /\ WF_vars(WakeUp(p)) /\ WF_vars(Timeout(p))

Executing == {t \in Jobs : ~limiter.job[t].bypass /\ limiter.job[t].st = "running"}

\* C29: the rate-limit queue serializes work: for any interleaving of
\* submissions without bypass with a running processQueue, no two queued
\* tasks execute at the same time, no task is left in the queue while the
\* processor is idle, and every submitted task is eventually started,
\* exactly once.
QueueSerializes ==
  /\ [](/\ Cardinality(Executing) <= 1
        /\ ~limiter.isProcessingQueue => limiter.taskQueue = <<>>
        /\ \A t \in Jobs : limiter.job[t].starts <= 1)
  /\ \A t \in Jobs :
       (limiter.job[t].st = "queued") ~> (limiter.job[t].starts = 1)

\* C29 witness: two jobs were submitted while processQueue was running (their
\* own processQueue call returned at once) and both have run to the end.
QueuedBehindAndRun ==
  \E t, u \in Jobs :
    /\ t # u
    /\ \A x \in {t, u} :
         /\ limiter.proc[x].pc = "returned"
         /\ limiter.job[x].st = "done"
         /\ limiter.job[x].starts = 1

\* C30: a task whose promise was rejected by its timeout while it was still
\* waiting in the queue is never executed afterwards.
ExpiredInQueueNeverRuns ==
  \A t \in Jobs : limiter.job[t].expiredInQueue => limiter.job[t].starts = 0

====
